---- MODULE Spec2Model ----
(***************************************************************************)
(* WakeLink cloud relay: the connection registry, the in-memory queues and *)
(* the pending-response table of core/relay.py, the durable message table, *)
(* the HTTP push/pull surface of routes/api.py, the two stream endpoints   *)
(* of routes/wss.py and the retention sweeper of core/cleanup.py.          *)
(*                                                                         *)
(* The server runs one asyncio event loop: a handler runs without          *)
(* interruption from one await to the next.  Every action below is the     *)
(* code a handler executes when an await it is suspended at completes, up  *)
(* to the next await that can suspend (a stream send, a stream receive, a  *)
(* stream close, asyncio.sleep).  SQLAlchemy calls are synchronous and     *)
(* acquiring the never-contended asyncio.Lock does not suspend.            *)
(***************************************************************************)
EXTENDS Integers, Sequences, FiniteSets, TLC

\* ---------------------------------------------------------------- bounds
NumStreams == 2
NumRequests == 2
MaxInputs == 3
MaxTime == 2
RetentionTicks == 1

\* ------------------------------------------------------------- constants
None == "none"
NoStream == 0
NoList == 0
Absent == -2
Null == -1

Users == {"u1", "u2"}
DeviceIds == {"d1", "d2", "d3"}
\* Further ids a user can register, so that the device limit is in reach;
\* they are keys of the devices table only.
SpareIds == {"d4", "d5", "d6", "d7"}
TableIds == DeviceIds \cup SpareIds
ClientIds == {"c1", "c2"}
Directions == {"to_device", "to_client"}

Streams == 1 .. NumStreams
Requests == 1 .. NumRequests

ClientConn(cid) == IF cid = "c1" THEN "client_c1" ELSE "client_c2"
ClientConnIds == {ClientConn(c) : c \in ClientIds}
ConnIds == DeviceIds \cup ClientConnIds
IsClientConn(id) == id \in ClientConnIds
ListIds == 1 .. (Cardinality(ConnIds) + NumStreams)

VARIABLES
  now,                \* wall clock (UTC)
  tz,                 \* the host's local time zone: offset from UTC
  lock,               \* relay._lock: TRUE while a coroutine holds it
  devices,            \* devices table: device_id -> row (user_id = None: no row)
  messages,           \* messages table: set of rows
  next_id,            \* next primary key of the messages table
  connections,        \* relay.connections: connection id -> stream
  queues,             \* relay.queues: connection id -> list object
  lists,              \* the list objects queues refers to
  pending_responses,  \* relay.pending_responses: device id -> client connection id
  ws,                 \* the WebSocket objects: transport state, frames sent to the peer, close code
  h,                  \* the stream handlers: position and locals
  http,               \* the HTTP requests: position, locals and response
  inputs,             \* number of envelopes submitted so far
  swept,              \* payloads of rows deleted by the sweeper
  cascaded            \* payloads of rows deleted together with their device

vars == <<now, tz, lock, devices, messages, next_id, connections, queues, lists,
          pending_responses, ws, h, http, inputs, swept, cascaded>>

\* ----------------------------------------------------------------- data
NoDevice == [user_id |-> None, last_seen |-> -1, poll_count |-> 0,
             last_request_counter |-> 0]

NoFrame == [shape |-> None, device_id |-> None, payload |-> 0, signature |-> 0,
            version |-> None, request_counter |-> Absent]

\* A frame a peer sends: shape "ok" is a JSON object carrying all four
\* required fields; "missing" is a JSON object that lacks one; "badjson" does
\* not parse; "scalar" parses to a number, a boolean or null.
DataFrame(dev, p, ver, rc) ==
  [shape |-> "ok", device_id |-> dev, payload |-> p, signature |-> p,
   version |-> ver, request_counter |-> rc]

\* What the server sends on a stream.
Packet(dev, p, sig, ver, rc) ==
  [type |-> "packet", device_id |-> dev, payload |-> p, signature |-> sig,
   version |-> ver, request_counter |-> rc, info |-> None]
Welcome(id) ==
  [type |-> "welcome", device_id |-> id, payload |-> 0, signature |-> 0,
   version |-> "1.0", request_counter |-> Absent, info |-> "connected"]
ErrorFrame(kind) ==
  [type |-> "error", device_id |-> None, payload |-> 0, signature |-> 0,
   version |-> None, request_counter |-> Absent, info |-> kind]
Ack(dev, delivered) ==
  [type |-> "ack", device_id |-> dev, payload |-> 0, signature |-> 0,
   version |-> None, request_counter |-> Absent,
   info |-> IF delivered THEN "delivered" ELSE "queued"]
NoPacket ==
  [type |-> None, device_id |-> None, payload |-> 0, signature |-> 0,
   version |-> None, request_counter |-> Absent, info |-> None]

Message(id, dev, mtype, data, sig, dir, ts) ==
  [id |-> id, device_id |-> dev, message_type |-> mtype, message_data |-> data,
   signature |-> sig, direction |-> dir, timestamp |-> ts]

NoHandler ==
  [kind |-> None, id |-> None, conn |-> None, header |-> None, user |-> None,
   pc |-> "init", auth_received |-> FALSE, json_token |-> None,
   first_message |-> NoFrame,
   first |-> NoFrame, message_data |-> NoFrame, msg |-> NoPacket,
   queued |-> NoList, n_queued |-> 0, qi |-> 0, to |-> NoStream, err |-> None,
   delivered |-> FALSE, found |-> FALSE]

NoResponse == [status |-> None, delivered_via_ws |-> FALSE, messages |-> <<>>,
               devices |-> {}, online |-> {}]

NoRequest ==
  [kind |-> None, user |-> None, device_id |-> None, direction |-> None,
   pc |-> "idle", to |-> NoStream, data |-> NoPacket, wait |-> 0, start |-> 0,
   found |-> FALSE, resp |-> NoResponse]

\* The state after start-up, but for the host's time zone.
Booted ==
  /\ now = 0
  /\ lock = FALSE
  /\ devices = [d \in TableIds |->
                  IF d = "d1" THEN [NoDevice EXCEPT !.user_id = "u1"]
                  ELSE IF d = "d2" THEN [NoDevice EXCEPT !.user_id = "u2"]
                  ELSE NoDevice]
  /\ messages = {}
  /\ next_id = 1
  /\ connections = [c \in ConnIds |-> NoStream]
  /\ queues = [c \in ConnIds |-> NoList]
  /\ lists = [l \in ListIds |-> <<>>]
  /\ pending_responses = [d \in DeviceIds |-> None]
  /\ ws = [s \in Streams |-> [state |-> "new", sent |-> <<>>, code |-> 0]]
  /\ h = [s \in Streams |-> NoHandler]
  /\ http = [r \in Requests |-> NoRequest]
  /\ inputs = 0
  /\ swept = {}
  /\ cascaded = {}

\* A host whose local time is UTC.
Init == tz = 0 /\ Booted

\* A host in any time zone: west of UTC, UTC, east of UTC.
Zones == {-1, 0, 1}
InitZoned == tz \in Zones /\ Booted

\* ------------------------------------------------------------ inputs
StreamTokens == Users \cup {"bad", None}
DeviceCounters == {Absent, 1, 2}
ClientCounters == {Absent}
Frames(p, counters) ==
  {DataFrame(d, p, "1.0", rc) : d \in DeviceIds, rc \in counters}
    \cup {DataFrame("d1", p, "0.9", Absent),
          [DataFrame("d1", p, "1.0", Absent) EXCEPT !.shape = "missing"],
          [NoFrame EXCEPT !.shape = "badjson"],
          [NoFrame EXCEPT !.shape = "scalar"]}

\* ------------------------------------------------------------- helpers
\* (a validation that accepts whatever token is presented)
validate_api_token_any(token) == token
validate_api_token(token) == IF token \in Users THEN token ELSE None

\* A send on a stream succeeds while its transport is open.
SendOk(w) == ws[w].state = "open"

Sent(wsf, w, frame) == [wsf EXCEPT ![w].sent = Append(@, frame)]

Touch(dev) ==
  IF devices[dev].user_id # None
  THEN [devices EXCEPT ![dev].last_seen = now]
  ELSE devices

\* List objects: a list lives while relay.queues or a draining handler's
\* local `queued` refers to it.
Referenced(l, qs, hs) ==
  \/ \E c \in ConnIds : qs[c] = l
  \/ \E s \in Streams : hs[s].queued = l
Collect(ls, qs, hs) ==
  [l \in ListIds |-> IF Referenced(l, qs, hs) THEN ls[l] ELSE <<>>]
FreshList ==
  CHOOSE l \in ListIds :
    /\ ~Referenced(l, queues, h)
    /\ \A k \in ListIds : k < l => Referenced(k, queues, h)

Queue(id) == IF queues[id] = NoList THEN <<>> ELSE lists[queues[id]]

\* ------------------------------------------------------- relay engine
\* push, under the lock: remember the client waiting for target's response.
\* (a push that does not remember the sender)
push_track_never(pr, target, sender) == pr
push_track(pr, target, sender) ==
  IF sender # None /\ IsClientConn(sender)
  THEN [pr EXCEPT ![target] = sender]
  ELSE pr

\* push, queueing: q = queues.setdefault(target, []); q.append(data)
push_queues(target) ==
  IF queues[target] = NoList
  THEN [queues EXCEPT ![target] = FreshList]
  ELSE queues
push_append(q, data) == Append(q, data)
push_lists(target, data) ==
  LET l == IF queues[target] = NoList THEN FreshList ELSE queues[target]
  IN  [lists EXCEPT ![l] = push_append(@, data)]

\* push_response, under the lock: pending_responses.pop(device_id, None)
push_response_pop(pr, dev) == [pr EXCEPT ![dev] = None]

\* asyncio.Lock as the registry uses it: `async with self._lock` takes the
\* free lock, runs a block that holds no await, and releases the lock on the
\* way out.
\* (a lock that is not released on the way out)
lock_release_never(locked) == locked
lock_release(locked) == FALSE
WithLock == lock = FALSE /\ lock' = lock_release(TRUE)

\* disconnect, under the lock.
disconnect_connections(conns, cid) == [conns EXCEPT ![cid] = NoStream]
\* (a disconnect that leaves the correlation table alone)
disconnect_pending_kept(pr, cid) == pr
disconnect_pending(pr, cid) ==
  [d \in DeviceIds |-> IF pr[d] = cid THEN None ELSE pr[d]]

Locals(hr) ==
  [hr EXCEPT !.auth_received = FALSE, !.json_token = None,
             !.first_message = NoFrame,
             !.first = NoFrame, !.message_data = NoFrame, !.msg = NoPacket,
             !.queued = NoList, !.n_queued = 0, !.qi = 0, !.to = NoStream,
             !.err = None,
             !.delivered = FALSE, !.found = FALSE]

\* relay.disconnect(conn) from the handler's finally block, up to the await
\* of ws.close() on the stream it removed from the registry.
disconnect(s, wsBase, prBase) ==
  LET cid == h[s].conn
      w == connections[cid]
  IN  /\ WithLock
      /\ connections' = disconnect_connections(connections, cid)
      /\ pending_responses' = disconnect_pending(prBase, cid)
      /\ ws' = wsBase
      /\ h' = [h EXCEPT ![s] = [Locals(@) EXCEPT
                 !.pc = IF w # NoStream THEN "close" ELSE "done", !.to = w]]

\* The await of ws.close() completes; disconnect returns and the handler ends.
DisconnectClose(s) ==
  /\ h[s].pc = "close"
  /\ ws' = [ws EXCEPT ![h[s].to] =
               IF @.state = "open"
               THEN [@ EXCEPT !.state = "closed", !.code = 1000]
               ELSE @]
  /\ h' = [h EXCEPT ![s] = [Locals(@) EXCEPT !.pc = "done"]]
  /\ UNCHANGED <<now, tz, lock, devices, messages, next_id, connections, queues, lists,
                 pending_responses, http, inputs, swept, cascaded>>

\* relay.connect(ws, cid), under the lock: register, take the queue.
connect_register(conns, cid, s) == [conns EXCEPT ![cid] = s]
connect(s, cid, hr) ==
  LET q == queues[cid]
      drain == q # NoList /\ lists[q] # <<>>
  IN  /\ WithLock
      /\ connections' = connect_register(connections, cid, s)
      /\ h' = [h EXCEPT ![s] = [hr EXCEPT
                 !.conn = cid,
                 !.pc = IF drain THEN "drain" ELSE "welcome",
                 !.queued = IF drain THEN q ELSE NoList,
                 !.n_queued = IF drain THEN Len(lists[q]) ELSE 0,
                 !.qi = IF drain THEN 1 ELSE 0]]

\* connect, after the loop: queues.pop(connection_id, None)
connect_pop(qs, cid) == [qs EXCEPT ![cid] = NoList]

\* connect, the loop over `queued`: the send of queued[qi] completes.  The
\* loop iterates the list object itself, so it sees what was appended to it
\* meanwhile; it ends at the end of the list or at the first failed send.
Drain(s) ==
  /\ h[s].pc = "drain"
  /\ LET l == h[s].queued
         ok == SendOk(s)
         more == ok /\ h[s].qi < Len(lists[l])
         qs == IF more THEN queues ELSE connect_pop(queues, h[s].conn)
         hs == [h EXCEPT ![s].qi = IF more THEN @ + 1 ELSE 0,
                         ![s].queued = IF more THEN @ ELSE NoList,
                         ![s].n_queued = IF more THEN @ ELSE 0,
                         ![s].pc = IF more THEN "drain" ELSE "welcome"]
     IN  /\ ws' = IF ok THEN Sent(ws, s, lists[l][h[s].qi]) ELSE ws
         /\ queues' = qs
         /\ h' = hs
         /\ lists' = Collect(lists, qs, hs)
         /\ IF more THEN UNCHANGED lock ELSE WithLock
  /\ UNCHANGED <<now, tz, devices, messages, next_id, connections,
                 pending_responses, http, inputs, swept, cascaded>>

\* An authentication failure: one error frame, close 1008, never registered.
AuthFail(s, kind, id, header, error) ==
  /\ ws' = [ws EXCEPT ![s] = [state |-> "closed", sent |-> <<ErrorFrame(error)>>,
                              code |-> 1008]]
  /\ h' = [h EXCEPT ![s] = [NoHandler EXCEPT !.kind = kind, !.id = id,
                                              !.header = header, !.pc = "done"]]
  /\ UNCHANGED <<lock, devices, connections>>

\* --------------------------------------------------- device endpoint
\* /ws/{device_id}: the upgrade with its Authorization header, up to the
\* first send after registration.
DeviceOpen(s, token, dev) ==
  /\ h[s].pc = "init"
  /\ LET user == validate_api_token(token)
     IN  IF token = None THEN AuthFail(s, "device", dev, token, "AUTH_REQUIRED")
         ELSE IF user = None
              THEN AuthFail(s, "device", dev, token, "INVALID_API_TOKEN")
         ELSE IF devices[dev].user_id # user
              THEN AuthFail(s, "device", dev, token, "DEVICE_NOT_FOUND")
         ELSE /\ devices' = [devices EXCEPT ![dev].last_seen = now]
              /\ ws' = [ws EXCEPT ![s].state = "open"]
              /\ connect(s, dev, [NoHandler EXCEPT !.kind = "device",
                                    !.id = dev, !.header = token,
                                    !.user = user])
  /\ UNCHANGED <<now, tz, messages, next_id, queues, lists, pending_responses,
                 http, inputs, swept, cascaded>>

\* A frame failed validation: the handler sends a structured error frame.
Reject(s, frame, wsBase, error) ==
  /\ ws' = wsBase
  /\ h' = [h EXCEPT ![s].pc = "err", ![s].err = error, ![s].first = NoFrame,
                    ![s].message_data = frame]
  /\ UNCHANGED <<lock, devices, messages, next_id, connections, queues, lists,
                 pending_responses>>

\* The search for missing fields, `f not in message_data`, raises when the
\* parsed frame is a number, a boolean or null: no error frame is sent and
\* the handler leaves through its finally block.
NotAContainer(s) ==
  /\ disconnect(s, ws, pending_responses)
  /\ UNCHANGED <<devices, messages, next_id, queues, lists>>

\* (a store that drops the row it is given)
Persist_never(dev, mtype, data, sig, dir) == UNCHANGED <<messages, next_id>>
Persist(dev, mtype, data, sig, dir) ==
  /\ messages' = messages \cup {Message(next_id, dev, mtype, data, sig, dir, now)}
  /\ next_id' = next_id + 1

\* The device loop, a frame arrives: validation, the presence side effects
\* and relay.push_response up to its send to the waiting client.  The
\* handler's Device object is expired by every commit, so building the row
\* of a response that was not forwarded reloads it (device.device_token):
\* with the device's row gone that raises, nothing is stored and the handler
\* leaves through its finally block.
device_gone(dev) == devices[dev].user_id = None
device_record(frame) ==
  IF devices[frame.device_id].user_id # None
  THEN [devices EXCEPT
          ![frame.device_id].last_seen = now,
          ![frame.device_id].last_request_counter =
             IF frame.request_counter \notin {Absent, Null}
             THEN frame.request_counter ELSE @]
  ELSE devices
device_outer_packet(frame) ==
  Packet(frame.device_id, frame.payload, frame.signature, "1.0",
         IF frame.request_counter = Absent THEN Null ELSE frame.request_counter)
push_response_client(dev) == pending_responses[dev]
push_response_ws(client) ==
  IF client = None THEN NoStream ELSE connections[client]

DeviceFrame(s, frame) ==
  /\ h[s].kind = "device"
  /\ h[s].pc = "recv"
  /\ SendOk(s)
  /\ inputs < MaxInputs
  /\ inputs' = inputs + 1
  /\ IF frame.shape = "badjson" THEN Reject(s, frame, ws, "INVALID_JSON")
     ELSE IF frame.shape = "scalar" THEN NotAContainer(s)
     ELSE IF frame.shape = "missing" THEN Reject(s, frame, ws, "INVALID_PACKET")
     ELSE IF frame.version # "1.0" THEN Reject(s, frame, ws, "UNSUPPORTED_VERSION")
     ELSE LET outer == device_outer_packet(frame)
              client == push_response_client(h[s].id)
              w == push_response_ws(client)
              popped == push_response_pop(pending_responses, h[s].id)
          IN  /\ devices' = device_record(frame)
              /\ WithLock
              /\ IF w # NoStream
                 THEN /\ h' = [h EXCEPT ![s].pc = "fwd", ![s].to = w,
                                        ![s].message_data = frame,
                                        ![s].msg = outer]
                      /\ pending_responses' = popped
                      /\ UNCHANGED <<messages, next_id, connections, ws>>
                 ELSE IF device_gone(h[s].id)
                 THEN /\ disconnect(s, ws, popped)
                      /\ UNCHANGED <<messages, next_id>>
                 ELSE /\ Persist(frame.device_id, "response", frame.payload,
                                 frame.signature, "to_client")
                      /\ pending_responses' = popped
                      /\ UNCHANGED <<h, connections, ws>>
              /\ UNCHANGED <<queues, lists>>
  /\ UNCHANGED <<now, tz, http, swept, cascaded>>

\* push_response: the send to the waiting client completes.
push_response_result(ok) == ok
DeviceForwarded(s) ==
  /\ h[s].pc = "fwd"
  /\ LET forwarded == push_response_result(SendOk(h[s].to))
         m == h[s].msg
         wsBase == IF SendOk(h[s].to) THEN Sent(ws, h[s].to, m) ELSE ws
     IN  IF ~forwarded /\ device_gone(h[s].id)
         THEN /\ disconnect(s, wsBase, pending_responses)
              /\ UNCHANGED <<messages, next_id>>
         ELSE /\ ws' = wsBase
              /\ IF forwarded
                 THEN UNCHANGED <<messages, next_id>>
                 ELSE Persist(m.device_id, "response", m.payload, m.signature,
                              "to_client")
              /\ h' = [h EXCEPT ![s].pc = "recv", ![s].to = NoStream,
                                ![s].message_data = NoFrame,
                                ![s].msg = NoPacket]
              /\ UNCHANGED <<lock, connections, pending_responses>>
  /\ UNCHANGED <<now, tz, devices, queues, lists, http, inputs, swept, cascaded>>

\* ----------------------------------------------------- client endpoint
client_outer_packet(frame) ==
  Packet(frame.device_id, frame.payload, frame.signature, "1.0", Absent)

\* The client loop, a command is taken up (from the stream or the frame
\* retained during authentication): validation, last_seen, relay.push up to
\* its send to the device; with no device stream the command is queued and
\* persisted, and the handler is at the send of the ACK.
ClientCommand(s, frame, wsBase) ==
  IF frame.shape = "missing" THEN Reject(s, frame, wsBase, "INVALID_PACKET")
  ELSE IF frame.version # "1.0" THEN Reject(s, frame, wsBase, "UNSUPPORTED_VERSION")
  ELSE LET target == frame.device_id
           outer == client_outer_packet(frame)
           w == connections[target]
           device == devices[target].user_id # None
       IN  /\ ws' = wsBase
           /\ WithLock
           /\ devices' = Touch(target)
           /\ pending_responses' = push_track(pending_responses, target, h[s].conn)
           /\ UNCHANGED connections
           /\ IF w # NoStream
              THEN /\ h' = [h EXCEPT ![s].pc = "push", ![s].to = w, ![s].msg = outer,
                                     ![s].message_data = frame,
                                     ![s].first = NoFrame, ![s].delivered = FALSE,
                                     ![s].found = device]
                   /\ UNCHANGED <<messages, next_id, queues, lists>>
              ELSE /\ h' = [h EXCEPT ![s].pc = "ack", ![s].to = NoStream,
                                     ![s].message_data = frame,
                                     ![s].msg = outer, ![s].first = NoFrame,
                                     ![s].delivered = FALSE, ![s].found = device]
                   /\ queues' = push_queues(target)
                   /\ lists' = push_lists(target, outer)
                   /\ Persist(target, "command", frame.payload, frame.signature,
                              "to_device")

ClientFrame(s, frame) ==
  /\ h[s].kind = "client"
  /\ h[s].pc = "recv"
  /\ SendOk(s)
  /\ inputs < MaxInputs
  /\ inputs' = inputs + 1
  /\ IF frame.shape = "badjson" THEN Reject(s, frame, ws, "INVALID_JSON")
     ELSE IF frame.shape = "scalar" THEN NotAContainer(s)
     ELSE ClientCommand(s, frame, ws)
  /\ UNCHANGED <<now, tz, http, swept, cascaded>>

\* relay.push called by the client handler: the send to the device completes.
\* The row of a command that was not delivered carries device.device_token:
\* the Device object loaded before the push is expired, and reloading it
\* raises when the row was deleted during the send.
\* (a push that reports delivery whatever the send did)
push_result_always(ok) == TRUE
push_result(ok) == ok
ClientPushed(s) ==
  /\ h[s].pc = "push"
  /\ LET delivered == push_result(SendOk(h[s].to))
         m == h[s].msg
         wsBase == IF SendOk(h[s].to) THEN Sent(ws, h[s].to, m) ELSE ws
     IN  /\ IF delivered
            THEN UNCHANGED <<lock, queues, lists>>
            ELSE /\ WithLock
                 /\ queues' = push_queues(m.device_id)
                 /\ lists' = push_lists(m.device_id, m)
         /\ IF ~delivered /\ h[s].found /\ device_gone(m.device_id)
            THEN /\ disconnect(s, wsBase, pending_responses)
                 /\ UNCHANGED <<messages, next_id>>
            ELSE /\ ws' = wsBase
                 /\ IF delivered
                    THEN UNCHANGED <<messages, next_id>>
                    ELSE Persist(m.device_id, "command", m.payload, m.signature,
                                 "to_device")
                 /\ h' = [h EXCEPT ![s].pc = "ack", ![s].to = NoStream,
                                   ![s].delivered = delivered]
                 /\ UNCHANGED <<connections, pending_responses>>
  /\ UNCHANGED <<now, tz, devices, http, inputs, swept, cascaded>>

\* The send of the ACK completes.
ClientAck(s) ==
  /\ h[s].pc = "ack"
  /\ IF SendOk(s)
     THEN /\ ws' = Sent(ws, s, Ack(h[s].msg.device_id, h[s].delivered))
          /\ h' = [h EXCEPT ![s].pc = "recv", ![s].message_data = NoFrame,
                            ![s].msg = NoPacket, ![s].delivered = FALSE]
          /\ UNCHANGED <<lock, connections, pending_responses>>
     ELSE disconnect(s, ws, pending_responses)
  /\ UNCHANGED <<now, tz, devices, messages, next_id, queues, lists, http, inputs,
                 swept, cascaded>>

\* /ws/client/{client_id}: accept, the header token, the first frame (or
\* the 10 s timeout), the token choice, registration.
FirstFrames(p) ==
  {[kind |-> "auth", token |-> t, frame |-> NoFrame] : t \in StreamTokens}
    \cup {[kind |-> "data", token |-> None, frame |-> f] :
            f \in {g \in Frames(p, ClientCounters) :
                    g.shape \in {"ok", "missing"}}}
    \cup {[kind |-> "junk", token |-> None, frame |-> NoFrame],
          [kind |-> "timeout", token |-> None, frame |-> NoFrame]}

\* (a token choice that ignores the upgrade headers)
authenticate_token_json_only(header, first) ==
  IF first.kind = "auth" /\ first.token # None THEN first.token ELSE None
authenticate_token(header, first) ==
  IF first.kind = "auth" /\ first.token # None THEN first.token
  ELSE IF header # None THEN header
  ELSE None

ClientOpen(s, cid, header, first) ==
  /\ h[s].pc = "init"
  /\ first.kind = "data" => inputs < MaxInputs
  /\ inputs' = IF first.kind = "data" THEN inputs + 1 ELSE inputs
  /\ LET token == authenticate_token(header, first)
         user == validate_api_token(token)
     IN  IF token = None THEN AuthFail(s, "client", cid, header, "AUTH_REQUIRED")
         ELSE IF user = None
              THEN AuthFail(s, "client", cid, header, "INVALID_TOKEN")
         ELSE /\ ws' = [ws EXCEPT ![s].state = "open"]
              /\ connect(s, ClientConn(cid),
                         [NoHandler EXCEPT !.kind = "client", !.id = cid,
                            !.header = header, !.user = user,
                            !.auth_received = (first.kind = "auth"),
                            !.json_token = first.token,
                            !.first_message = IF first.kind = "data"
                                              THEN first.frame ELSE NoFrame,
                            !.first = IF first.kind = "data" THEN first.frame
                                      ELSE NoFrame])
              /\ UNCHANGED devices
  /\ UNCHANGED <<now, tz, messages, next_id, queues, lists, pending_responses,
                 http, swept, cascaded>>

\* ------------------------------------------------ both endpoints
\* The send of the welcome frame completes; a client handler then takes up
\* the frame it retained during authentication.
SendWelcome(s) ==
  /\ h[s].pc = "welcome"
  /\ IF ~SendOk(s)
     THEN /\ disconnect(s, ws, pending_responses)
          /\ UNCHANGED <<devices, messages, next_id, queues, lists>>
     ELSE IF h[s].first.shape = None
     THEN /\ ws' = Sent(ws, s, Welcome(h[s].id))
          /\ h' = [h EXCEPT ![s].pc = "recv"]
          /\ UNCHANGED <<lock, devices, messages, next_id, connections, queues, lists,
                         pending_responses>>
     ELSE ClientCommand(s, h[s].first, Sent(ws, s, Welcome(h[s].id)))
  /\ UNCHANGED <<now, tz, http, inputs, swept, cascaded>>

\* The send of an error frame completes.
ErrorSent(s) ==
  /\ h[s].pc = "err"
  /\ IF SendOk(s)
     THEN /\ ws' = Sent(ws, s, ErrorFrame(h[s].err))
          /\ h' = [h EXCEPT ![s].pc = "recv", ![s].err = None,
                            ![s].message_data = NoFrame]
          /\ UNCHANGED <<lock, connections, pending_responses>>
     ELSE disconnect(s, ws, pending_responses)
  /\ UNCHANGED <<now, tz, devices, messages, next_id, queues, lists, http, inputs,
                 swept, cascaded>>

\* receive_text raises: the peer is gone or the stream was closed.
ReceiveFailed(s) ==
  /\ h[s].pc = "recv"
  /\ ~SendOk(s)
  /\ disconnect(s, ws, pending_responses)
  /\ UNCHANGED <<now, tz, devices, messages, next_id, queues, lists, http, inputs,
                 swept, cascaded>>

\* The peer drops the transport.
PeerDrop(s) ==
  /\ ws[s].state = "open"
  /\ ws' = [ws EXCEPT ![s].state = "dropped"]
  /\ UNCHANGED <<now, tz, lock, devices, messages, next_id, connections, queues, lists,
                 pending_responses, h, http, inputs, swept, cascaded>>

Tick ==
  /\ now < MaxTime
  /\ now' = now + 1
  /\ UNCHANGED <<tz, lock, devices, messages, next_id, connections, queues, lists,
                 pending_responses, ws, h, http, inputs, swept, cascaded>>

\* ------------------------------------------------------- HTTP surface
InOrderRequest(r) == IF r = 1 THEN TRUE ELSE http[r - 1].pc # "idle"

Unauthorized(r, kind) ==
  /\ http' = [http EXCEPT ![r] = [NoRequest EXCEPT !.kind = kind, !.pc = "done",
                                    !.resp = [NoResponse EXCEPT !.status = "401"]]]
  /\ UNCHANGED <<lock, devices, messages, next_id, queues, lists, inputs>>

\* PushMessage.direction is any string: the two directions, or another one.
PushDirections == Directions \cup {"sideways"}
push_message_type(direction) ==
  IF direction = "to_device" THEN "command" ELSE "response"

\* POST /api/push up to the send of relay.push (or to the response).
PushStart(r, token, dev, direction, version) ==
  /\ http[r].pc = "idle"
  /\ inputs < MaxInputs
  /\ IF validate_api_token(token) = None THEN Unauthorized(r, "push")
     ELSE LET p == inputs + 1
              device == devices[dev].user_id # None
              w == IF device THEN connections[dev] ELSE NoStream
              data == Packet(dev, p, p, version, Absent)
              req == [NoRequest EXCEPT !.kind = "push",
                        !.user = validate_api_token(token),
                        !.device_id = dev, !.direction = direction,
                        !.data = data, !.found = device]
          IN  /\ inputs' = p
              /\ devices' = Touch(dev)
              /\ Persist(dev, push_message_type(direction), p, p, direction)
              /\ IF w # NoStream
                 THEN /\ http' = [http EXCEPT ![r] =
                                    [req EXCEPT !.pc = "send", !.to = w]]
                      /\ WithLock
                      /\ UNCHANGED <<queues, lists>>
                 ELSE /\ http' = [http EXCEPT ![r] =
                                    [req EXCEPT !.pc = "done",
                                       !.resp = [NoResponse EXCEPT !.status = "ok"]]]
                      /\ IF device
                         THEN /\ WithLock
                              /\ queues' = push_queues(dev)
                              /\ lists' = push_lists(dev, data)
                         ELSE UNCHANGED <<lock, queues, lists>>
  /\ UNCHANGED <<now, tz, connections, pending_responses, ws, h, swept, cascaded>>

\* relay.push called by POST /api/push: the send to the device completes.
PushSent(r) ==
  /\ http[r].pc = "send"
  /\ LET delivered == push_result(SendOk(http[r].to))
         m == http[r].data
     IN  /\ ws' = IF SendOk(http[r].to) THEN Sent(ws, http[r].to, m) ELSE ws
         /\ IF delivered
            THEN UNCHANGED <<lock, queues, lists>>
            ELSE /\ WithLock
                 /\ queues' = push_queues(m.device_id)
                 /\ lists' = push_lists(m.device_id, m)
         /\ http' = [http EXCEPT ![r].pc = "done", ![r].to = NoStream,
                       ![r].resp = [NoResponse EXCEPT !.status = "ok",
                                      !.delivered_via_ws = delivered]]
  /\ UNCHANGED <<now, tz, devices, messages, next_id, connections,
                 pending_responses, h, inputs, swept, cascaded>>

\* The query of pull_messages: rows of (device_id, direction), ORDER BY
\* timestamp; rows of equal timestamp come in an order the store chooses.
\* (a query that forgets the direction filter)
pull_query_any_direction(dev, direction) ==
  {m \in messages : m.device_id = dev}
pull_query(dev, direction) ==
  {m \in messages : m.device_id = dev /\ m.direction = direction}
Ordered(rows) ==
  {q \in [1 .. Cardinality(rows) -> rows] :
     /\ \A i, j \in 1 .. Cardinality(rows) : i # j => q[i] # q[j]
     /\ \A i, j \in 1 .. Cardinality(rows) :
          i < j => q[i].timestamp <= q[j].timestamp}

MaxWait == 30
pull_wait_time(wait) == IF wait < MaxWait THEN wait ELSE MaxWait

\* pull_messages after a read that ends the loop: poll_count, the response,
\* the deletion of the rows read.  No await separates the read from the
\* deletion; a delete by the sweeper thread falls before or after them.
\* (a pull that leaves the rows it returned in the store)
pull_deleted_none(rows) == messages
pull_deleted(rows) == messages \ rows
\* (a pull that counts every poll, fruitful or not)
pull_poll_count_always(devs, dev, rows) ==
  [devs EXCEPT ![dev].poll_count = @ + 1]
pull_poll_count(devs, dev, rows) ==
  IF rows # {} THEN [devs EXCEPT ![dev].poll_count = @ + 1] ELSE devs
PullFinish(r, req, devs, rows) ==
  IF req.found /\ rows # {} /\ devs[req.device_id].user_id = None
  THEN \* the device row loaded at the start is gone: the refresh raises
       /\ http' = [http EXCEPT ![r] =
                     [req EXCEPT !.pc = "done",
                        !.resp = [NoResponse EXCEPT !.status = "500"]]]
       /\ devices' = devs
       /\ UNCHANGED messages
  ELSE \E q \in Ordered(rows) :
         /\ http' = [http EXCEPT ![r] =
                       [req EXCEPT !.pc = "done",
                          !.resp = [NoResponse EXCEPT !.status = "ok",
                                      !.messages = q]]]
         /\ devices' = IF req.found
                       THEN pull_poll_count(devs, req.device_id, rows)
                       ELSE devs
         /\ messages' = pull_deleted(rows)

\* POST /api/pull up to the first asyncio.sleep (or to the response).
PullStart(r, token, dev, direction, wait) ==
  /\ http[r].pc = "idle"
  /\ IF validate_api_token(token) = None
     THEN /\ Unauthorized(r, "pull")
          /\ UNCHANGED <<devices, messages>>
     ELSE LET rows == pull_query(dev, direction)
              req == [NoRequest EXCEPT !.kind = "pull",
                        !.user = validate_api_token(token),
                        !.device_id = dev, !.direction = direction,
                        !.wait = pull_wait_time(wait), !.start = now,
                        !.found = devices[dev].user_id # None]
          IN  IF rows # {} \/ req.wait <= 0
              THEN PullFinish(r, req, Touch(dev), rows)
              ELSE /\ http' = [http EXCEPT ![r] = [req EXCEPT !.pc = "sleep"]]
                   /\ devices' = Touch(dev)
                   /\ UNCHANGED messages
  /\ UNCHANGED <<now, tz, lock, next_id, connections, queues, lists, pending_responses,
                 ws, h, inputs, swept, cascaded>>

\* A sleep slice of the long poll ends: re-read, return or sleep again.
PullWake(r) ==
  /\ http[r].pc = "sleep"
  /\ LET rows == pull_query(http[r].device_id, http[r].direction)
     IN  /\ rows # {} \/ now - http[r].start >= http[r].wait
         /\ PullFinish(r, http[r], devices, rows)
  /\ UNCHANGED <<now, tz, lock, next_id, connections, queues, lists, pending_responses,
                 ws, h, inputs, swept, cascaded>>

\* The response has been written: the request is over.
Respond(r) ==
  /\ http[r].pc = "done"
  /\ http' = [http EXCEPT ![r] = NoRequest]
  /\ UNCHANGED <<now, tz, lock, devices, messages, next_id, connections, queues, lists,
                 pending_responses, ws, h, inputs, swept, cascaded>>

\* POST /api/register_device (core.auth.save_device): refused at the user's
\* device limit; an existing device of the user is refreshed, an unknown id
\* becomes a new row, and an id that belongs to another user violates the
\* primary key when the new row is committed.
DevicesLimit == 5
device_count(user) == Cardinality({d \in TableIds : devices[d].user_id = user})
save_device_status(user, dev) ==
  IF device_count(user) >= DevicesLimit THEN "403"
  ELSE IF devices[dev].user_id \in {user, None} THEN "device_registered"
  ELSE "500"
save_device(user, dev) ==
  IF save_device_status(user, dev) # "device_registered" THEN devices
  ELSE IF devices[dev].user_id = user
  THEN [devices EXCEPT ![dev].last_seen = now]
  ELSE [devices EXCEPT ![dev] =
          [NoDevice EXCEPT !.user_id = user, !.last_seen = now]]
RegisterDevice(r, token, dev) ==
  /\ http[r].pc = "idle"
  /\ IF validate_api_token(token) = None
     THEN Unauthorized(r, "register")
     ELSE LET user == validate_api_token(token)
          IN  /\ devices' = save_device(user, dev)
              /\ http' = [http EXCEPT ![r] =
                            [NoRequest EXCEPT !.kind = "register", !.user = user,
                               !.device_id = dev, !.pc = "done",
                               !.resp = [NoResponse EXCEPT !.status =
                                           save_device_status(user, dev)]]]
              /\ UNCHANGED <<messages, next_id, queues, lists, inputs>>
  /\ UNCHANGED <<now, tz, lock, connections, pending_responses, ws, h, swept, cascaded>>

\* POST /api/delete_device (core.auth.delete_device) by the device's owner.
delete_device_messages(dev) == {m \in messages : m.device_id # dev}
DeleteDevice(token, dev, track) ==
  /\ validate_api_token(token) # None
  /\ devices[dev].user_id = validate_api_token(token)
  /\ messages' = delete_device_messages(dev)
  /\ devices' = [devices EXCEPT ![dev] = NoDevice]
  /\ cascaded' = IF track
                 THEN cascaded \cup {m.message_data : m \in messages \ messages'}
                 ELSE cascaded
  /\ UNCHANGED <<now, tz, lock, next_id, connections, queues, lists, pending_responses,
                 ws, h, http, inputs, swept>>

\* DELETE /api/device/delete by the device's owner: the device row is
\* deleted; the rows of the messages table are left alone (the schema
\* declares no cascade and SQLite does not enforce the foreign key).
ApiDeviceDelete(token, dev) ==
  /\ validate_api_token(token) # None
  /\ devices[dev].user_id = validate_api_token(token)
  /\ devices' = [devices EXCEPT ![dev] = NoDevice]
  /\ UNCHANGED <<now, tz, lock, messages, next_id, connections, queues, lists,
                 pending_responses, ws, h, http, inputs, swept, cascaded>>

\* The dashboard's delete (POST /dashboard/delete_device) by the logged-in
\* owner: the device row is deleted, nothing else.
DashboardDelete(user, dev) ==
  /\ user \in Users
  /\ devices[dev].user_id = user
  /\ devices' = [devices EXCEPT ![dev] = NoDevice]
  /\ UNCHANGED <<now, tz, lock, messages, next_id, connections, queues, lists,
                 pending_responses, ws, h, http, inputs, swept, cascaded>>

\* ------------------------------------------------------ presence reports
\* The 5 minutes of the online window, in clock ticks.
OnlineTicks == 1

\* last_seen as a handler reads it back from the store: the value was
\* written as the local wall-clock fields of datetime.now().astimezone(), and
\* it is read as a datetime without a zone.
stored_last_seen(dev) == devices[dev].last_seen + tz

\* routes.api._is_device_online(last_seen): no look at the registry; the
\* subtraction of the zoneless value read from the store from the aware
\* datetime.now().astimezone() raises TypeError, which the function answers
\* with False.
_is_device_online(dev) ==
  IF devices[dev].last_seen = -1 THEN FALSE
  ELSE FALSE

\* core.utils.is_device_online(last_seen, device_id): a registered stream,
\* or the zoneless value taken as UTC and compared with the clock.
is_connected(cid) == connections[cid] # NoStream
is_device_online(dev) ==
  IF dev \in DeviceIds /\ is_connected(dev) THEN TRUE
  ELSE IF devices[dev].last_seen = -1 THEN FALSE
  ELSE now - stored_last_seen(dev) < OnlineTicks

\* GET /api/devices: the caller's devices with their online flags.
ApiDevices(r, token) ==
  /\ http[r].pc = "idle"
  /\ IF validate_api_token(token) = None
     THEN Unauthorized(r, "devices")
     ELSE LET user == validate_api_token(token)
              own == {d \in TableIds : devices[d].user_id = user}
          IN  /\ http' = [http EXCEPT ![r] =
                            [NoRequest EXCEPT !.kind = "devices", !.user = user,
                               !.pc = "done",
                               !.resp = [NoResponse EXCEPT !.status = "ok",
                                  !.devices = own,
                                  !.online = {d \in own : _is_device_online(d)}]]]
              /\ UNCHANGED <<lock, devices, messages, next_id, queues, lists, inputs>>
  /\ UNCHANGED <<now, tz, connections, pending_responses, ws, h, swept, cascaded>>

\* GET /dashboard for a logged-in user: the device list of the page.
Dashboard(r, user) ==
  /\ http[r].pc = "idle"
  /\ user \in Users
  /\ LET own == {d \in TableIds : devices[d].user_id = user}
     IN  http' = [http EXCEPT ![r] =
                    [NoRequest EXCEPT !.kind = "dashboard", !.user = user,
                       !.pc = "done",
                       !.resp = [NoResponse EXCEPT !.status = "ok",
                          !.devices = own,
                          !.online = {d \in own : is_device_online(d)}]]]
  /\ UNCHANGED <<now, tz, lock, devices, messages, next_id, connections, queues,
                 lists, pending_responses, ws, h, inputs, swept, cascaded>>

\* ------------------------------------------------- retention sweeper
\* (a sweeper that deletes nothing)
cleanup_old_messages_none(cutoff) == messages
cleanup_old_messages(cutoff) == {m \in messages : ~(m.timestamp < cutoff)}
\* The cutoff is datetime.now().astimezone() less the retention period, and
\* the store compares its local wall-clock fields with the rows' timestamps,
\* which the store itself set in UTC.
cutoff_time == now + tz - RetentionTicks
Sweep(track) ==
  /\ messages' = cleanup_old_messages(cutoff_time)
  /\ swept' = IF track
              THEN swept \cup {m.message_data : m \in messages \ messages'}
              ELSE swept
  /\ UNCHANGED <<now, tz, lock, devices, next_id, connections, queues, lists,
                 pending_responses, ws, h, http, inputs, cascaded>>

\* ------------------------------------------------------ specifications
\* Streams are interchangeable one-shot slots and client ids are
\* interchangeable names: slot s is used after slot s - 1, and "c2" after "c1".
InOrder(s) == IF s = 1 THEN TRUE ELSE h[s - 1].pc # "init"
Canonical(cid) ==
  cid = "c1" \/ \E t \in Streams : h[t].kind = "client" /\ h[t].id = "c1"

AuthMessage(t) == [kind |-> "auth", token |-> t, frame |-> NoFrame]
ValidFrames(p, devs, counters) ==
  {DataFrame(d, p, "1.0", rc) : d \in devs, rc \in counters}

\* The relay engine under the two stream endpoints: authenticated streams
\* of device d1 and of clients of both users, valid frames naming d1 or d2,
\* pushes to d1 over HTTP, and the deletion of d1 by its owner.
StreamStep(s) ==
  \/ Drain(s)
  \/ SendWelcome(s)
  \/ DeviceForwarded(s)
  \/ ClientPushed(s)
  \/ ClientAck(s)
  \/ ReceiveFailed(s)
  \/ DisconnectClose(s)
  \/ PeerDrop(s)

NextRelay ==
  \/ \E s \in Streams :
       \/ InOrder(s) /\ DeviceOpen(s, "u1", "d1")
       \/ \E cid \in ClientIds, u \in Users :
            InOrder(s) /\ Canonical(cid) /\ ClientOpen(s, cid, None, AuthMessage(u))
       \/ \E frame \in ValidFrames(inputs + 1, {"d1", "d2"}, {Absent}) :
            DeviceFrame(s, frame)
       \/ \E frame \in ValidFrames(inputs + 1, {"d1", "d2"}, {Absent}) :
            ClientFrame(s, frame)
       \/ StreamStep(s)
  \/ PushStart(1, "u1", "d1", "to_device", "1.0")
  \/ PushSent(1)
  \/ DeleteDevice("u1", "d1", FALSE)

SpecRelay == Init /\ [][NextRelay]_vars

\* A finished request does nothing but hand over its response, which
\* commutes with every other step: it is taken first.
Responding == \E r \in Requests : http[r].pc = "done"

\* The HTTP surface, the sweeper and the clock: pushes and pulls by the
\* owner of d1, by another user, and for a device that does not exist.
MaxPushes == 2
HttpCallers == {<<"u1", "d1">>, <<"u2", "d1">>, <<"u1", "d3">>}

NextHttp ==
  \/ ~Responding /\ Tick
  \/ ~Responding /\ Sweep(FALSE)
  \/ \E r \in Requests :
       \/ \E c \in HttpCallers, dir \in Directions :
            /\ ~Responding
            /\ InOrderRequest(r)
            /\ inputs < MaxPushes
            /\ PushStart(r, c[1], c[2], dir, "1.0")
       \/ \E c \in HttpCallers, dir \in Directions, wait \in {0, 1} :
            ~Responding /\ InOrderRequest(r) /\ PullStart(r, c[1], c[2], dir, wait)
       \/ ~Responding /\ PullWake(r)
       \/ Respond(r)

SpecHttp == Init /\ [][NextHttp]_vars

\* The life of a pushed envelope: pushes and pulls by the owner of d1, the
\* device's stream, the deletion of the device, the sweeper and the clock.
\* The clock stops at MaxTime, so an envelope is accepted only while its
\* retention period ends before that; requests are not recycled, so that a
\* response stays visible.
Retainable == now + RetentionTicks < MaxTime
StreamStepLive(s) ==
  \/ Drain(s)
  \/ SendWelcome(s)
  \/ ReceiveFailed(s)
  \/ DisconnectClose(s)
  \/ PeerDrop(s)

NextLive ==
  \/ Tick
  \/ Sweep(TRUE)
  \/ DeleteDevice("u1", "d1", TRUE)
  \/ \E r \in Requests :
       \/ InOrderRequest(r) /\ Retainable /\ PushStart(r, "u1", "d1", "to_device", "1.0")
       \/ PushSent(r)
       \/ \E wait \in {0, 1} :
            InOrderRequest(r) /\ PullStart(r, "u1", "d1", "to_device", wait)
       \/ PullWake(r)
  \/ \E s \in Streams :
       \/ InOrder(s) /\ DeviceOpen(s, "u1", "d1")
       \/ StreamStepLive(s)

\* The clock advances and the sweeper thread keeps running.
Fairness == WF_vars(Tick) /\ WF_vars(Sweep(TRUE))
SpecLive == Init /\ [][NextLive]_vars /\ Fairness

\* The two stream endpoints with every kind of input: a valid, an unknown
\* or no bearer token, any device id, a first client frame of any kind, and
\* frames that fail validation.
MaxFrames == 2
IngressTokens == {"u1", "bad", None}
NextIngress ==
  \E s \in Streams :
    \/ \E token \in IngressTokens, dev \in DeviceIds :
         InOrder(s) /\ DeviceOpen(s, token, dev)
    \/ \E header \in IngressTokens, first \in FirstFrames(inputs + 1) :
         InOrder(s) /\ inputs < MaxFrames /\ ClientOpen(s, "c1", header, first)
    \/ \E frame \in Frames(inputs + 1, {Absent}) :
         inputs < MaxFrames /\ DeviceFrame(s, frame)
    \/ \E frame \in Frames(inputs + 1, ClientCounters) :
         inputs < MaxFrames /\ ClientFrame(s, frame)
    \/ StreamStep(s)
    \/ ErrorSent(s)

SpecIngress == Init /\ [][NextIngress]_vars

\* Presence: every event that reports a device as seen (registration, HTTP
\* push and pull, the device's stream and its frames with and without a
\* request counter, commands of a client), and the clock.  Transports do
\* not fail here.
StreamStepPresence(s) ==
  \/ Drain(s)
  \/ SendWelcome(s)
  \/ DeviceForwarded(s)
  \/ ClientPushed(s)
  \/ ClientAck(s)

NextPresence ==
  \/ Tick
  \/ \E r \in Requests :
       \/ InOrderRequest(r) /\ inputs < MaxFrames
            /\ PushStart(r, "u1", "d1", "to_device", "1.0")
       \/ PushSent(r)
       \/ InOrderRequest(r) /\ PullStart(r, "u1", "d1", "to_client", 0)
       \/ \E dev \in {"d1", "d3"} :
            InOrderRequest(r) /\ RegisterDevice(r, "u1", dev)
  \/ \E s \in Streams :
       \/ InOrder(s) /\ DeviceOpen(s, "u1", "d1")
       \/ InOrder(s) /\ ClientOpen(s, "c1", None, AuthMessage("u1"))
       \/ \E frame \in ValidFrames(inputs + 1, {"d1", "d3"}, DeviceCounters) :
            inputs < MaxFrames /\ DeviceFrame(s, frame)
       \/ \E frame \in ValidFrames(inputs + 1, {"d1"}, {Absent}) :
            inputs < MaxFrames /\ ClientFrame(s, frame)
       \/ StreamStepPresence(s)

SpecPresence == Init /\ [][NextPresence]_vars

\* The whole server: every endpoint with every input.
Next ==
  \/ Tick
  \/ Sweep(TRUE)
  \/ \E token \in StreamTokens, dev \in DeviceIds : DeleteDevice(token, dev, TRUE)
  \/ \E token \in StreamTokens, dev \in DeviceIds : ApiDeviceDelete(token, dev)
  \/ \E user \in Users, dev \in DeviceIds : DashboardDelete(user, dev)
  \/ \E r \in Requests :
       \/ \E token \in StreamTokens, dev \in DeviceIds, dir \in PushDirections,
             version \in {"1.0", "0.9"} :
            PushStart(r, token, dev, dir, version)
       \/ PushSent(r)
       \/ \E token \in StreamTokens, dev \in DeviceIds, dir \in Directions,
             wait \in {0, 1, MaxWait + 1} :
            PullStart(r, token, dev, dir, wait)
       \/ PullWake(r)
       \/ \E token \in StreamTokens, dev \in DeviceIds :
            RegisterDevice(r, token, dev)
       \/ \E token \in StreamTokens : ApiDevices(r, token)
       \/ \E user \in Users : Dashboard(r, user)
       \/ Respond(r)
  \/ \E s \in Streams :
       \/ \E token \in StreamTokens, dev \in DeviceIds : DeviceOpen(s, token, dev)
       \/ \E cid \in ClientIds, header \in StreamTokens,
             first \in FirstFrames(inputs + 1) :
            ClientOpen(s, cid, header, first)
       \/ \E frame \in Frames(inputs + 1, DeviceCounters) : DeviceFrame(s, frame)
       \/ \E frame \in Frames(inputs + 1, ClientCounters) : ClientFrame(s, frame)
       \/ StreamStep(s)
       \/ ErrorSent(s)

Spec == Init /\ [][Next]_vars

\* ================================================================ claims
Range(q) == {q[i] : i \in 1 .. Len(q)}

\* What one call of relay.push(target, env) that returned `ret` did, given
\* the stream w it found registered for the target (NoStream: none).
PushOutcome(w, target, env, ret) ==
  /\ ret => /\ w # NoStream
            /\ ws'[w].sent = Append(ws[w].sent, env)
            /\ Queue(target)' = Queue(target)
  /\ ~ret => /\ IF w = NoStream
                THEN connections[target] = NoStream /\ ws' = ws
                ELSE ws'[w].sent = ws[w].sent
             /\ Queue(target)' = Append(Queue(target), env)
\* The client handler's call returns: at once when no stream is registered
\* for the target, else when the send has completed.
ClientPushReturnsAtOnce(s) ==
  h[s].kind = "client" /\ h[s].pc = "recv" /\ h'[s].pc = "ack"
ClientPushReturnsAfterSend(s) ==
  h[s].pc = "push" /\ h'[s].pc # "push"
HttpPushReturns(r) ==
  /\ http[r].pc \in {"idle", "send"}
  /\ http'[r].pc = "done"
  /\ http'[r].kind = "push"
  /\ http'[r].found

\* C1: a call of relay.push returns true only if the envelope was sent on
\* the stream found registered for the target, and then the envelope is not
\* appended to the target's in-memory queue; it returns false only if no
\* stream was registered or the send failed, and then the envelope is
\* appended exactly once, at the tail of the target's queue.
C1_PushContract ==
  [][\A w \in Streams \cup {NoStream}, target \in DeviceIds :
      /\ \A s \in Streams :
          /\ ( /\ ClientPushReturnsAtOnce(s)
               /\ w = NoStream
               /\ target = h'[s].msg.device_id ) =>
               PushOutcome(w, target, h'[s].msg, h'[s].delivered)
          /\ ( /\ ClientPushReturnsAfterSend(s)
               /\ w = h[s].to
               /\ target = h[s].msg.device_id ) =>
               PushOutcome(w, target, h[s].msg,
                           h'[s].pc = "ack" /\ h'[s].delivered)
          /\ (h[s].kind = "client" /\ h[s].pc = "recv" /\ h'[s].pc = "push") =>
               /\ h'[s].to = connections[h'[s].msg.device_id]
               /\ h'[s].to # NoStream
               /\ UNCHANGED <<ws, queues, lists>>
      /\ \A r \in Requests :
          /\ ( /\ HttpPushReturns(r)
               /\ w = (IF http[r].pc = "send" THEN http[r].to ELSE NoStream)
               /\ target = http'[r].data.device_id ) =>
               PushOutcome(w, target, http'[r].data,
                           http'[r].resp.delivered_via_ws)
          /\ (http[r].pc = "idle" /\ http'[r].pc = "send") =>
               /\ http'[r].to = connections[http'[r].data.device_id]
               /\ http'[r].to # NoStream
               /\ UNCHANGED <<ws, queues, lists>>
    ]_vars

\* C1 witness: a command whose send on the registered device stream failed
\* is at the tail of the device's queue, and push returned false.
C1_Witness ==
  \E s \in Streams :
    /\ h[s].kind = "client"
    /\ h[s].pc = "ack"
    /\ ~h[s].delivered
    /\ connections[h[s].msg.device_id] # NoStream
    /\ ws[connections[h[s].msg.device_id]].state = "dropped"
    /\ Queue(h[s].msg.device_id) # <<>>
    /\ Queue(h[s].msg.device_id)[Len(Queue(h[s].msg.device_id))] = h[s].msg

\* C5: a command frame on a client stream whose device does not exist or is
\* not owned by the stream's user is rejected with a structured error and
\* mutates nothing: every frame a client handler takes up is either refused
\* with the tables, the queues and the correlation table unchanged, or names
\* a device owned by the authenticated user.
C5_Original ==
  [][\A s \in Streams :
       (h[s].kind = "client" /\ h[s].pc = "recv"
          /\ h'[s].pc \in {"push", "ack", "err"}) =>
         IF h'[s].pc = "err"
         THEN UNCHANGED <<devices, messages, queues, lists, pending_responses>>
         ELSE devices[h'[s].msg.device_id].user_id = h[s].user
    ]_vars

\* C7: when a second stream has registered under a connection id that an
\* earlier stream holds, the registry maps the id to the later stream and
\* the earlier stream is closed: once the later handler is in its receive
\* loop, the earlier stream's transport is no longer open.
C7_Original ==
  \A a, b \in Streams :
    ( /\ a < b
      /\ h[a].conn # None
      /\ h[a].conn = h[b].conn
      /\ h[a].pc = "recv"
      /\ h[b].pc = "recv" ) =>
      /\ connections[h[b].conn] = b
      /\ ws[a].state # "open"

\* C8: the drain on register sends the queued envelopes in FIFO order and
\* stops at the first send error; the envelope whose send failed and all
\* envelopes behind it remain in the id's queue in their original order.
C8_Original ==
  [][\A s \in Streams, c \in ConnIds :
       (h[s].pc = "drain" /\ c = h[s].conn) =>
         IF ws'[s].sent # ws[s].sent
         THEN ws'[s].sent = Append(ws[s].sent, lists[h[s].queued][h[s].qi])
         ELSE /\ h'[s].pc # "drain"
              /\ Queue(c)' = SubSeq(lists[h[s].queued], h[s].qi,
                                    Len(lists[h[s].queued]))
    ]_vars

\* C9 as stated: when disconnect(id) returns, id is not registered and no
\* pending-response entry names id as its waiting client.
C9_Original ==
  [][\A s \in Streams, c \in ConnIds :
       (h[s].pc # "done" /\ h'[s].pc = "done" /\ c = h[s].conn) =>
         /\ connections'[c] = NoStream
         /\ \A d \in DeviceIds : pending_responses'[d] # c
    ]_vars

\* C9: when disconnect(id) leaves its guarded section, before the close of
\* the stream it removed, id is not registered and no pending-response entry
\* names id as its waiting client; entries naming another client are
\* unchanged by it.  (A device handler that leaves on a frame it could not
\* store has popped its own device's entry in push_response just before.)
C9_DeregisterGuarded ==
  [][\A s \in Streams, c \in ConnIds :
       (h[s].pc \notin {"close", "done"} /\ h'[s].pc \in {"close", "done"}
          /\ c = h[s].conn) =>
         /\ connections'[c] = NoStream
         /\ \A d \in DeviceIds :
              /\ pending_responses'[d] # c
              /\ (pending_responses[d] # c
                    /\ ~(inputs' # inputs /\ d = h[s].id)) =>
                   pending_responses'[d] = pending_responses[d]
    ]_vars

\* C9 witness: a client that was sent an ACK for a command has been
\* deregistered; no entry names it, and an entry of another client is there.
C9_Witness ==
  \E s \in Streams :
    /\ h[s].kind = "client"
    /\ h[s].pc \in {"close", "done"}
    /\ \E i \in 1 .. Len(ws[s].sent) : ws[s].sent[i].type = "ack"
    /\ connections[h[s].conn] = NoStream
    /\ \A d \in DeviceIds : pending_responses[d] # h[s].conn
    /\ \E d \in DeviceIds : pending_responses[d] \notin {None, h[s].conn}

NewRows == messages' \ messages
ResponseRow(m, p) ==
  m.direction = "to_client" /\ m.message_type = "response" /\ m.message_data = p
\* A frame was taken and no handler is left at a send for it: a device
\* handler took a valid frame and finished with it in one step.
DeviceFrameAtOnce ==
  /\ inputs' = inputs + 1
  /\ http' = http
  /\ \A t \in Streams :
       /\ h'[t].pc \in {h[t].pc, "close", "done"}
       /\ h[t].pc = "init" => h'[t].pc = "init"

\* C10: every valid frame received on a device stream is either forwarded
\* successfully over the stream of the client recorded in the device's
\* pending-response entry, or persisted as exactly one row with
\* direction=to_client and message_type=response; never both, never neither.
C10_Original ==
  [][/\ DeviceFrameAtOnce =>
          /\ ws' = ws
          /\ messages \subseteq messages'
          /\ Cardinality(NewRows) = 1
          /\ \A m \in NewRows : ResponseRow(m, inputs')
     /\ \A s \in Streams :
          (h[s].kind = "device" /\ h[s].pc = "recv" /\ h'[s].pc = "fwd") =>
            /\ pending_responses[h[s].id] # None
            /\ h'[s].to = connections[pending_responses[h[s].id]]
            /\ UNCHANGED <<ws, messages>>
     /\ \A s \in Streams, w \in Streams :
          (h[s].pc = "fwd" /\ h'[s].pc # "fwd" /\ w = h[s].to) =>
            \/ /\ ws' = [ws EXCEPT ![w].sent = Append(@, h[s].msg)]
               /\ messages' = messages
            \/ /\ ws' = ws
               /\ messages \subseteq messages'
               /\ Cardinality(NewRows) = 1
               /\ \A m \in NewRows : ResponseRow(m, h[s].msg.payload)
    ]_vars

\* The outcomes of the envelope with payload p.
Delivered(p) ==
  \E s \in Streams : \E i \in 1 .. Len(ws[s].sent) :
    ws[s].sent[i].type = "packet" /\ ws[s].sent[i].payload = p
Pulled(p) ==
  \E r \in Requests : \E i \in 1 .. Len(http[r].resp.messages) :
    http[r].resp.messages[i].message_data = p
AgedOut(p) == p \in swept
DeletedWithDevice(p) == p \in cascaded
Accepted(p) == p <= inputs

\* C2 as stated: of the three outcomes of an envelope accepted by HTTP push
\* (delivered over a stream, retrieved by a pull, aged out by the sweeper)
\* no two occur.
C2_Original ==
  \A p \in 1 .. MaxInputs :
    /\ ~(Delivered(p) /\ Pulled(p))
    /\ ~(Delivered(p) /\ AgedOut(p))
    /\ ~(Pulled(p) /\ AgedOut(p))

\* C2: every envelope accepted by HTTP push is eventually delivered over a
\* stream, retrieved by a pull, aged out by the sweeper, or deleted together
\* with its device; more than one of these can occur.
C2_EventuallyAnOutcome ==
  \A p \in 1 .. MaxInputs :
    Accepted(p) ~>
      (Delivered(p) \/ Pulled(p) \/ AgedOut(p) \/ DeletedWithDevice(p))

\* C2 witness: an envelope was delivered over the device's stream, and its
\* row was later aged out by the sweeper.
C2_Witness ==
  \E p \in 1 .. MaxInputs : Accepted(p) /\ Delivered(p) /\ AgedOut(p)

\* C3: an HTTP push by an authenticated user for a device that does not exist
\* or is owned by another user is answered with an error and changes no
\* state: no row, no last_seen, nothing sent, no queue or pending entry.
C3_Original ==
  [][\A r \in Requests :
       ( /\ http[r].pc = "idle"
         /\ http'[r].kind = "push"
         /\ http'[r].user # None
         /\ devices[http'[r].device_id].user_id # http'[r].user ) =>
         /\ http'[r].pc = "done"
         /\ http'[r].resp.status # "ok"
         /\ UNCHANGED <<devices, messages, ws, queues, lists, pending_responses>>
    ]_vars

\* C4: a pull by a user for a device the user does not own returns none of
\* the device's envelopes, deletes none, and leaves the device's last_seen
\* and poll_count as they were.
C4_Original ==
  [][\A r \in Requests :
       ( /\ http[r].pc \in {"idle", "sleep"}
         /\ http'[r].pc # "idle"
         /\ http'[r].kind = "pull"
         /\ http'[r].user # None
         /\ devices[http'[r].device_id].user_id # http'[r].user ) =>
         /\ http'[r].resp.messages = <<>>
         /\ messages' = messages
         /\ devices'[http'[r].device_id] = devices[http'[r].device_id]
    ]_vars

PullReturns(r) ==
  /\ http[r].pc \in {"idle", "sleep"}
  /\ http'[r].pc = "done"
  /\ http'[r].kind = "pull"
  /\ http'[r].resp.status = "ok"

\* C6: the envelopes a pull returns are the rows it deletes, and they are
\* all the rows of (device_id, direction) at its successful read: none of
\* them is left for a subsequent pull, and no other row is touched.
C6_PullExact ==
  [][\A r \in Requests :
       PullReturns(r) =>
         LET returned == Range(http'[r].resp.messages)
             matching == {m \in messages :
                            /\ m.device_id = http'[r].device_id
                            /\ m.direction = http'[r].direction}
         IN  /\ returned = matching
             /\ Len(http'[r].resp.messages) = Cardinality(matching)
             /\ messages' = messages \ returned
    ]_vars

\* C6 witness: a pull has returned an envelope; no row of its device and
\* direction is left, and a row of the other direction is still there.
C6_Witness ==
  \E r \in Requests :
    /\ http[r].kind = "pull"
    /\ http[r].pc = "done"
    /\ http[r].resp.messages # <<>>
    /\ \A m \in messages :
         ~(m.device_id = http[r].device_id /\ m.direction = http[r].direction)
    /\ \E m \in messages :
         m.device_id = http[r].device_id /\ m.direction # http[r].direction

\* A row of a command that was queued for its device.
CommandRow(m, dev, p) ==
  /\ m.direction = "to_device"
  /\ m.message_type = "command"
  /\ m.device_id = dev
  /\ m.message_data = p
OneNewRow(dev, p) ==
  /\ messages \subseteq messages'
  /\ Cardinality(NewRows) = 1
  /\ \A m \in NewRows : CommandRow(m, dev, p)

\* C11: for every valid command frame taken up on a client stream the
\* handler reaches the send of one ACK whose `delivered` is the result of
\* relay.push and whose `queued` is its negation, and a durable row with
\* direction=to_device is inserted if and only if the command was not
\* delivered over the device's stream.
C11_Original ==
  [][\A s \in Streams :
       /\ (h[s].kind = "client" /\ h[s].pc \in {"recv", "welcome"}
             /\ h'[s].pc = "ack") =>
            /\ ~h'[s].delivered
            /\ OneNewRow(h'[s].msg.device_id, h'[s].msg.payload)
       /\ (h[s].kind = "client" /\ h[s].pc \in {"recv", "welcome"}
             /\ h'[s].pc = "push") =>
            messages' = messages
       /\ (h[s].pc = "push" /\ h'[s].pc # "push") =>
            /\ h'[s].pc = "ack"
            /\ h'[s].delivered = (ws'[h[s].to].sent # ws[h[s].to].sent)
            /\ IF h'[s].delivered
               THEN messages' = messages
               ELSE OneNewRow(h[s].msg.device_id, h[s].msg.payload)
       /\ (h[s].pc = "ack" /\ h'[s].pc # "ack" /\ ws[s].state = "open") =>
            ws'[s].sent = Append(ws[s].sent,
                                 Ack(h[s].msg.device_id, h[s].delivered))
    ]_vars

\* C12: the pending-response table holds at most one waiting client per
\* device, and a command of a client overwrites the entry of its target:
\* after commands of c1 and then c2 for a device the entry is c2.  The next
\* response of the device consumes the entry and is forwarded only to the
\* stream of the client it named; a response that finds no entry is sent on
\* no stream and is persisted as one to_client row.
C12_Original ==
  [][/\ \A s \in Streams :
          (h[s].kind = "client" /\ h[s].pc \in {"recv", "welcome"}
             /\ h'[s].pc \in {"push", "ack"}) =>
            pending_responses' =
              [pending_responses EXCEPT ![h'[s].msg.device_id] = h[s].conn]
     /\ \A s \in Streams :
          (h[s].kind = "device" /\ h[s].pc = "recv" /\ h'[s].pc = "fwd") =>
            /\ pending_responses[h[s].id] # None
            /\ h'[s].to = connections[pending_responses[h[s].id]]
            /\ pending_responses' = [pending_responses EXCEPT ![h[s].id] = None]
            /\ ws' = ws
     /\ \A s \in Streams, w \in Streams :
          (h[s].pc = "fwd" /\ h'[s].pc # "fwd" /\ w = h[s].to) =>
            \A t \in Streams \ {w} : ws'[t] = ws[t]
     /\ DeviceFrameAtOnce =>
          /\ ws' = ws
          /\ \E s \in Streams :
               /\ h[s].kind = "device"
               /\ h[s].pc = "recv"
               /\ pending_responses' =
                    [pending_responses EXCEPT ![h[s].id] = None]
          /\ messages \subseteq messages'
          /\ Cardinality(NewRows) = 1
          /\ \A m \in NewRows : ResponseRow(m, inputs')
    ]_vars

\* The outer envelope of a frame: its four required fields, and its
\* request_counter where the frame carries one.
Verbatim(frame) ==
  Packet(frame.device_id, frame.payload, frame.signature, frame.version,
         frame.request_counter)

\* C13: the packet the relay sends to the peer for a frame it forwards is
\* the frame's outer envelope, field for field: device_id, payload,
\* signature and version as received, and request_counter present if and
\* only if the sender supplied it.
C13_Original ==
  [][\A s \in Streams, w \in Streams :
       ( /\ h[s].pc \in {"fwd", "push"}
         /\ h'[s].pc # h[s].pc
         /\ w = h[s].to
         /\ ws'[w].sent # ws[w].sent ) =>
         ws'[w].sent = Append(ws[w].sent, Verbatim(h[s].message_data))
    ]_vars

\* The request r is an HTTP push that was answered delivered_via_ws=false.
PushedUndelivered(r) ==
  /\ http[r].kind = "push"
  /\ http[r].pc = "done"
  /\ http[r].resp.status = "ok"
  /\ ~http[r].resp.delivered_via_ws
\* The stream s is the only stream the device has opened, and the envelope
\* of request r was sent on it: the push found no stream registered, and
\* the drain at registration delivered the queued envelope.
DrainedOnRegister(s, r) ==
  /\ h[s].kind = "device"
  /\ \A t \in Streams \ {s} : h[t].kind # "device"
  /\ \E i \in 1 .. Len(ws[s].sent) : ws[s].sent[i] = http[r].data

\* C14: after an HTTP push to a device with no registered stream (answered
\* delivered_via_ws=false, one to_device row stored), once the device has
\* registered and received that envelope over its stream, the durable
\* to_device row of the envelope no longer exists.
C14_Original ==
  \A s \in Streams, r \in Requests :
    (PushedUndelivered(r) /\ DrainedOnRegister(s, r)) =>
      ~\E m \in messages :
         CommandRow(m, http[r].device_id, http[r].data.payload)

\* The error the protocol assigns to a frame that fails validation.
ExpectedError(frame) ==
  IF frame.shape = "badjson" THEN "INVALID_JSON"
  ELSE IF frame.shape # "ok" THEN "INVALID_PACKET"
  ELSE IF frame.version # "1.0" THEN "UNSUPPORTED_VERSION"
  ELSE None
\* The handler of the active stream s takes a frame up from its stream.
TakesFrame(s) ==
  /\ h[s].pc = "recv"
  /\ ws[s].state = "open"
  /\ inputs' = inputs + 1
  /\ h'[s] # h[s]

\* C15: on an active device or client stream a frame that is not parseable
\* JSON, lacks one of the four required fields or carries a version other
\* than "1.0" is answered with the structured error frame of its kind, sent
\* to that peer only; the stream stays active and registered, and the
\* queues, the pending-response table, the rows and the device records are
\* unchanged.
C15_Original ==
  [][\A s \in Streams :
       /\ TakesFrame(s) =>
            /\ h'[s].pc \notin {"close", "done"}
            /\ connections' = connections
            /\ IF h'[s].pc = "err"
               THEN /\ h'[s].err = ExpectedError(h'[s].message_data)
                    /\ UNCHANGED <<devices, messages, queues, lists,
                                   pending_responses, ws>>
               ELSE ExpectedError(h'[s].message_data) = None
       /\ (h[s].pc = "err" /\ h'[s].pc # "err" /\ ws[s].state = "open") =>
            /\ ws' = Sent(ws, s, ErrorFrame(ExpectedError(h[s].message_data)))
            /\ h'[s].pc = "recv"
            /\ UNCHANGED <<devices, messages, queues, lists, pending_responses,
                           connections>>
    ]_vars

\* The stream s has passed authentication: its token resolved to a user
\* and, on the device endpoint, the device of its path belongs to that user.
Authenticated(hr) ==
  /\ hr.user \in Users
  /\ hr.kind = "device" => devices[hr.id].user_id = hr.user
AuthErrors ==
  {"AUTH_REQUIRED", "INVALID_API_TOKEN", "INVALID_TOKEN", "DEVICE_NOT_FOUND"}
Refused(s) ==
  /\ ws[s].state = "closed"
  /\ ws[s].code = 1008
  /\ Len(ws[s].sent) = 1
  /\ ws[s].sent[1].type = "error"
  /\ ws[s].sent[1].info \in AuthErrors

\* C16: a stream's connection id is in the registry, and the stream's
\* frames are processed, only after its token resolved to a user (and, on
\* the device endpoint, the device is owned by that user).  A stream that
\* fails authentication is sent one structured error frame and closed with
\* code 1008, and is never registered.
C16_AuthBeforeRegistry ==
  [][\A s \in Streams :
       /\ (h[s].pc = "init" /\ h'[s].pc # "init") =>
            IF Authenticated(h'[s])
            THEN /\ connections'[h'[s].conn] = s
                 /\ ws'[s].state = "open"
                 /\ ws'[s].code = 0
            ELSE /\ Refused(s)'
                 /\ h'[s].pc = "done"
                 /\ connections' = connections
       /\ (\E c \in ConnIds : connections'[c] = s) =>
            /\ Authenticated(h'[s])
            /\ ~Refused(s)'
       /\ (h[s].pc # "init" /\ h'[s] # h[s]) => Authenticated(h[s])
       /\ Refused(s) =>
            /\ h'[s] = h[s]
            /\ ws'[s] = ws[s]
            /\ \A c \in ConnIds : connections'[c] # s
    ]_vars

\* C16 witness: one stream was refused for a device its user does not own;
\* another, authenticated, is registered and in its receive loop.
C16_Witness ==
  \E s, t \in Streams :
    /\ Refused(s)
    /\ ws[s].sent[1].info = "DEVICE_NOT_FOUND"
    /\ h[t].pc = "recv"
    /\ connections[h[t].conn] = t
    /\ Authenticated(h[t])

\* C17: on every stream that passed authentication the welcome frame is the
\* first frame the server sends: neither an envelope drained from the queue
\* at registration nor an envelope delivered by a concurrent push precedes it.
C17_Original ==
  \A s \in Streams :
    (h[s].user \in Users /\ ws[s].sent # <<>>) =>
      ws[s].sent[1].type = "welcome"

\* A client stream opens with a data frame as its first frame while its
\* upgrade headers carry a valid bearer token.
LegacyOpen(s) ==
  /\ h[s].pc = "init"
  /\ h'[s].kind = "client"
  /\ inputs' = inputs + 1
  /\ h'[s].header \in Users

Stored(d) == devices[d].user_id # None

\* C19: a device's last_request_counter never decreases: a frame whose
\* counter is at least the stored value raises it to that counter, and a
\* frame with a lower counter leaves it unchanged.
C19_Original ==
  [][/\ \A d \in DeviceIds :
          (Stored(d) /\ Stored(d)') =>
            devices'[d].last_request_counter >= devices[d].last_request_counter
     /\ \A s \in Streams, d \in DeviceIds :
          ( /\ h[s].kind = "device"
            /\ h[s].pc = "recv"
            /\ h'[s].pc = "fwd"
            /\ d = h'[s].message_data.device_id
            /\ Stored(d)
            /\ h'[s].message_data.request_counter \notin {Absent, Null} ) =>
            devices'[d].last_request_counter =
              IF h'[s].message_data.request_counter
                   >= devices[d].last_request_counter
              THEN h'[s].message_data.request_counter
              ELSE devices[d].last_request_counter
    ]_vars

\* This step is an ingress event that concerns device d: an authorized HTTP
\* push or pull for d, a registration of d, the authenticated opening of
\* d's stream, a valid device frame whose envelope names d, or a valid
\* client command for d.
IngressEvent(d) ==
  \/ \E r \in Requests :
       /\ http[r].pc = "idle"
       /\ http'[r].kind \in {"push", "pull"}
       /\ http'[r].user # None
       /\ http'[r].device_id = d
  \/ \E r \in Requests :
       /\ http[r].pc = "idle"
       /\ http'[r].kind = "register"
       /\ http'[r].resp.status = "device_registered"
       /\ http'[r].device_id = d
  \/ \E s \in Streams :
       /\ h[s].pc = "init"
       /\ h'[s].kind = "device"
       /\ h'[s].pc # "done"
       /\ h'[s].id = d
  \/ \E s \in Streams :
       /\ h[s].kind = "device"
       /\ h[s].pc = "recv"
       /\ h'[s].pc = "fwd"
       /\ h'[s].message_data.device_id = d
  \/ DeviceFrameAtOnce /\ \E m \in NewRows : m.device_id = d
  \/ \E s \in Streams :
       /\ h[s].kind = "client"
       /\ h[s].pc \in {"recv", "welcome"}
       /\ h'[s].pc \in {"push", "ack"}
       /\ h'[s].msg.device_id = d

\* The effects of a step are confined to the device that stream s was
\* authenticated for: that device was seen now, no other device's record
\* moved, and every new row is filed under that device.
SenderOnly(s) ==
  /\ (Stored(h[s].id) /\ Stored(h[s].id)') => devices'[h[s].id].last_seen = now
  /\ \A d \in DeviceIds \ {h[s].id} :
       /\ devices'[d].last_seen = devices[d].last_seen
       /\ devices'[d].last_request_counter = devices[d].last_request_counter
  /\ \A m \in NewRows : m.device_id = h[s].id

\* C21: a valid frame received on the device stream authenticated for
\* device D updates the record of D only: D's last_seen becomes now, no
\* other device's last_seen or last_request_counter changes, and no row is
\* stored under another device's id, even when the frame's device_id names
\* a different device.
C21_Original ==
  [][/\ \A s \in Streams :
          (h[s].kind = "device" /\ h[s].pc = "recv" /\ h'[s].pc = "fwd") =>
            SenderOnly(s)
     /\ (DeviceFrameAtOnce /\ NewRows # {}) =>
          \E s \in Streams :
            h[s].kind = "device" /\ h[s].pc = "recv" /\ SenderOnly(s)
     /\ \A s \in Streams :
          (h[s].kind = "device" /\ h[s].pc = "fwd" /\ h'[s].pc = "recv") =>
            \A m \in NewRows : m.device_id = h[s].id
    ]_vars

\* This step is a valid frame taken from a device stream authenticated for
\* device d: the sender is d, whatever device the envelope names.
DeviceFrameFrom(d) ==
  \/ \E s \in Streams :
       /\ h[s].kind = "device"
       /\ h[s].pc = "recv"
       /\ h'[s].pc = "fwd"
       /\ h[s].id = d
  \/ /\ DeviceFrameAtOnce
     /\ NewRows # {}
     /\ \E s \in Streams : h[s].kind = "device" /\ h[s].pc = "recv"
     /\ \A s \in Streams :
          (h[s].kind = "device" /\ h[s].pc = "recv") => h[s].id = d

\* C20, with a valid device frame counted as an event of the device that
\* sent it: for every stored device, right after an ingress event that
\* concerns it last_seen is the time of that event; and last_seen never
\* decreases.
C20_Original ==
  [][\A d \in DeviceIds :
       /\ (Stored(d) /\ Stored(d)') =>
            devices'[d].last_seen >= devices[d].last_seen
       /\ ((IngressEvent(d) \/ DeviceFrameFrom(d)) /\ Stored(d)') =>
            devices'[d].last_seen = now
    ]_vars

\* Pull r returns in this step with at least one envelope of device d.
PullReturnsSome(r, d) ==
  /\ PullReturns(r)
  /\ http'[r].device_id = d
  /\ http'[r].resp.messages # <<>>

\* C22: a pull adds exactly 1 to the device's poll_count if and only if its
\* response holds at least one envelope; a pull that returns empty (at once
\* or at the end of its long poll) and every other step leave it unchanged.
C22_PollCount ==
  [][\A d \in DeviceIds :
       (Stored(d) /\ Stored(d)') =>
         devices'[d].poll_count =
           devices[d].poll_count +
             (IF \E r \in Requests : PullReturnsSome(r, d) THEN 1 ELSE 0)
    ]_vars

\* C22 witness: a long poll for d1 has just returned envelopes, it is the
\* second pull that did, and d1's poll_count is 2.
C22_Witness ==
  /\ devices["d1"].poll_count = 2
  /\ \E r \in Requests :
       /\ http[r].kind = "pull"
       /\ http[r].pc = "done"
       /\ http[r].device_id = "d1"
       /\ http[r].wait = 1
       /\ http[r].resp.messages # <<>>

\* Long polls: pulls of d1 with and without a wait, pushes in both
\* directions that fall into a pull's window, the deletion of the device,
\* the sweeper and the clock.  A long poll starts only while its window
\* ends before the clock stops.
PullWaits == {0, 1, 2}
NextPull ==
  \/ Tick
  \/ Sweep(FALSE)
  \/ DeleteDevice("u1", "d1", FALSE)
  \/ \E r \in Requests :
       \/ \E dir \in Directions :
            /\ InOrderRequest(r)
            /\ inputs < MaxPushes
            /\ PushStart(r, "u1", "d1", dir, "1.0")
       \/ \E dir \in Directions, wait \in PullWaits :
            /\ InOrderRequest(r)
            /\ now + wait <= MaxTime
            /\ PullStart(r, "u1", "d1", dir, wait)
       \/ PullWake(r)
       \/ Respond(r)

\* The clock advances, and the event loop resumes a sleeping pull when its
\* sleep slice is over.
FairnessPull == WF_vars(Tick) /\ \A r \in Requests : WF_vars(PullWake(r))
SpecPull == Init /\ [][NextPull]_vars /\ FairnessPull

\* The rows of the store that pull r asks for.
Matching(r) ==
  {m \in messages : m.device_id = http'[r].device_id
                    /\ m.direction = http'[r].direction}
\* Pull r, asleep in its long poll, ends in this step.
PullEnds(r) ==
  /\ http[r].kind = "pull"
  /\ http[r].pc = "sleep"
  /\ http'[r].pc = "done"

\* C23: every pull terminates.  With wait = 0 it returns the result of a
\* single read; with wait > 0 it returns at the first non-empty read, and
\* otherwise empty once min(wait, 30) has elapsed; an envelope that was
\* inserted for its (device_id, direction) during the window and is still
\* in the store when the pull ends is returned by that pull.
C23_Original ==
  /\ \A r \in Requests :
       (http[r].kind = "pull" /\ http[r].pc = "sleep") ~> (http[r].pc = "done")
  /\ [][\A r \in Requests :
          /\ ( /\ http[r].pc = "idle"
               /\ http'[r].kind = "pull"
               /\ http'[r].user # None
               /\ http'[r].wait = 0 ) =>
               /\ http'[r].pc = "done"
               /\ Range(http'[r].resp.messages) = Matching(r)
          /\ PullEnds(r) =>
               /\ Matching(r) \subseteq Range(http'[r].resp.messages)
               /\ \/ http'[r].resp.messages # <<>>
                  \/ now - http[r].start >= http[r].wait
       ]_vars

\* C24: queues are FIFO per (device_id, direction).  Envelopes are numbered
\* in the order they were accepted (row ids in the store, payloads in the
\* in-memory queue): a pull lists the rows it returns in that order, and
\* the drain on register sends the queued envelopes in that order.
C24_Original ==
  [][/\ \A r \in Requests :
          PullReturns(r) =>
            \A i, j \in 1 .. Len(http'[r].resp.messages) :
              i < j => http'[r].resp.messages[i].id < http'[r].resp.messages[j].id
     /\ \A s \in Streams :
          (h[s].pc = "drain" /\ h'[s] # h[s] /\ SendOk(s)) =>
            \A k \in 1 .. (h[s].qi - 1) :
              lists[h[s].queued][k].payload
                < lists[h[s].queued][h[s].qi].payload
    ]_vars

\* The sweeper thread on a host in any time zone: pushes for d1 in both
\* directions, the sweeper and the clock.
NextSweep ==
  \/ Tick
  \/ Sweep(TRUE)
  \/ \E r \in Requests :
       \/ \E dir \in Directions :
            /\ InOrderRequest(r)
            /\ inputs < MaxPushes
            /\ PushStart(r, "u1", "d1", dir, "1.0")
       \/ Respond(r)

SpecSweep == InitZoned /\ [][NextSweep]_vars /\ Fairness

\* Row m is older than the retention window.
Expired(m) == m.timestamp < now - RetentionTicks

\* C25: a sweep deletes every row older than now - retention and none
\* younger: a row that leaves the store under the sweeper is older than the
\* window, and a row older than the window does not outlast the next sweep.
C25_Original ==
  /\ [][\A m \in messages \ messages' : Expired(m)]_vars
  /\ \A p \in 1 .. MaxPushes :
       [](  (\E m \in messages : m.message_data = p /\ Expired(m))
         => <>(\A m \in messages : m.message_data # p))

\* The owner's devices: registrations and the three ways to delete a
\* device, with pushes that leave rows behind for it.
OwnDevices == {"d1", "d3"}
NextDelete ==
  \/ \E dev \in OwnDevices : DeleteDevice("u1", dev, FALSE)
  \/ \E dev \in OwnDevices : ApiDeviceDelete("u1", dev)
  \/ \E dev \in OwnDevices : DashboardDelete("u1", dev)
  \/ \E r \in Requests :
       \/ \E dev \in OwnDevices, dir \in Directions :
            /\ InOrderRequest(r)
            /\ inputs < MaxPushes
            /\ PushStart(r, "u1", dev, dir, "1.0")
       \/ \E dev \in OwnDevices : InOrderRequest(r) /\ RegisterDevice(r, "u1", dev)
       \/ Respond(r)

SpecDelete == Init /\ [][NextDelete]_vars

\* C26: the owner's delete cascades: right after a device was deleted
\* through any of the owner-facing deletes, no row of the messages table
\* carries its device_id.
C26_Original ==
  [][\A d \in DeviceIds :
       (Stored(d) /\ ~Stored(d)') => \A m \in messages' : m.device_id # d
    ]_vars

\* The three ingress paths that store rows: POST /api/push with any
\* direction in its body, the client stream and the device stream of d1.
NextRows ==
  \/ \E r \in Requests :
       \/ \E dir \in PushDirections :
            /\ InOrderRequest(r)
            /\ inputs < MaxFrames
            /\ PushStart(r, "u1", "d1", dir, "1.0")
       \/ PushSent(r)
       \/ Respond(r)
  \/ \E s \in Streams :
       \/ InOrder(s) /\ DeviceOpen(s, "u1", "d1")
       \/ InOrder(s) /\ ClientOpen(s, "c1", None, AuthMessage("u1"))
       \/ \E frame \in ValidFrames(inputs + 1, {"d1"}, {Absent}) :
            inputs < MaxFrames /\ DeviceFrame(s, frame)
       \/ \E frame \in ValidFrames(inputs + 1, {"d1"}, {Absent}) :
            inputs < MaxFrames /\ ClientFrame(s, frame)
       \/ StreamStepPresence(s)
       \/ ReceiveFailed(s)
       \/ DisconnectClose(s)
       \/ PeerDrop(s)

SpecRows == Init /\ [][NextRows]_vars

\* C27: every row of the messages table, whichever ingress path stored it,
\* has direction to_device or to_client, and is a command exactly when it is
\* to_device and a response exactly when it is to_client.
C27_Original ==
  \A m \in messages :
    /\ m.direction \in Directions
    /\ m.direction = "to_device" <=> m.message_type = "command"
    /\ m.direction = "to_client" <=> m.message_type = "response"

\* Registration up to the device limit: user u1 registers ids of its own,
\* new ones and one of another user, deletes devices, and the clock runs.
RegisterIds == {"d1", "d2"} \cup SpareIds
NextRegister ==
  \/ Tick
  \/ DeleteDevice("u1", "d1", FALSE)
  \/ \E r \in Requests :
       \/ \E dev \in RegisterIds : InOrderRequest(r) /\ RegisterDevice(r, "u1", dev)
       \/ Respond(r)

SpecRegister == Init /\ [][NextRegister]_vars

\* Request r is a registration by an authenticated user, answered in this step.
Registers(r) ==
  /\ http[r].pc = "idle"
  /\ http'[r].kind = "register"
  /\ http'[r].user # None

\* C28: a user never owns more devices than devices_limit.  A registration
\* of a new device at the limit is refused with 403 and changes nothing; a
\* registration of a device the user already owns refreshes it and does not
\* count as a new device.
C28_Original ==
  [][/\ \A u \in Users : device_count(u)' <= DevicesLimit
     /\ \A r \in Requests, u \in Users, d \in TableIds :
          (Registers(r) /\ http'[r].user = u /\ http'[r].device_id = d) =>
            IF devices[d].user_id = u
            THEN /\ http'[r].resp.status = "device_registered"
                 /\ devices'[d].last_seen = now
                 /\ device_count(u)' = device_count(u)
            ELSE device_count(u) >= DevicesLimit =>
                   /\ http'[r].resp.status = "403"
                   /\ devices' = devices
    ]_vars

\* Presence as the users see it, on a host in any time zone: the stream of
\* d1 comes and goes, d1 and d3 are registered, the clock runs, and the
\* owner asks for the device list and for the dashboard.  A response is
\* written before anything else happens.
NextReport ==
  \/ ~Responding /\ Tick
  \/ \E r \in Requests :
       \/ \E dev \in OwnDevices :
            ~Responding /\ InOrderRequest(r) /\ RegisterDevice(r, "u1", dev)
       \/ ~Responding /\ InOrderRequest(r) /\ ApiDevices(r, "u1")
       \/ ~Responding /\ InOrderRequest(r) /\ Dashboard(r, "u1")
       \/ Respond(r)
  \/ \E s \in Streams :
       \/ ~Responding /\ InOrder(s) /\ DeviceOpen(s, "u1", "d1")
       \/ ~Responding /\ SendWelcome(s)
       \/ ~Responding /\ ReceiveFailed(s)
       \/ ~Responding /\ DisconnectClose(s)
       \/ ~Responding /\ PeerDrop(s)

SpecReport == InitZoned /\ [][NextReport]_vars

\* Device d is online: a device stream is registered for its id, or it was
\* seen within the online window.
Online(d) ==
  \/ d \in DeviceIds /\ connections[d] # NoStream
  \/ devices[d].last_seen # -1 /\ now - devices[d].last_seen < OnlineTicks

\* C29: in the presence reported to users, by GET /api/devices and by the
\* dashboard, a device is online if and only if a device stream is
\* registered for its id or its last_seen lies within the last 5 minutes.
C29_Original ==
  [][\A r \in Requests :
       ( /\ http[r].pc = "idle"
         /\ http'[r].kind \in {"devices", "dashboard"}
         /\ http'[r].resp.status = "ok" ) =>
         \A d \in http'[r].resp.devices :
           d \in http'[r].resp.online <=> Online(d)
    ]_vars

\* Handler positions at which a coroutine is suspended in a stream send or
\* a stream close.
SendPcs == {"drain", "welcome", "push", "fwd", "ack", "err", "close"}
AtSendOrClose ==
  \/ \E s \in Streams : h[s].pc \in SendPcs
  \/ \E r \in Requests : http[r].pc = "send"
RegistryChanged ==
  \/ connections' # connections
  \/ queues' # queues
  \/ lists' # lists
  \/ pending_responses' # pending_responses
StoreChanged == messages' # messages \/ devices' # devices

NextCorrelate ==
  \E s \in Streams :
    \/ InOrder(s) /\ DeviceOpen(s, "u1", "d1")
    \/ InOrder(s) /\ ClientOpen(s, "c1", None, AuthMessage("u1"))
    \/ \E frame \in ValidFrames(inputs + 1, {"d1"}, {Absent}) : DeviceFrame(s, frame)
    \/ \E frame \in ValidFrames(inputs + 1, {"d1"}, {Absent}) : ClientFrame(s, frame)
    \/ StreamStep(s)

SpecCorrelate == Init /\ [][NextCorrelate]_vars

\* Client stream sc is registered and connected, it is the only client
\* stream, and the latest envelope submitted is a command for d that was
\* queued and stored because it could not be sent to d.
CommandWaits(sc, d) ==
  /\ h[sc].kind = "client"
  /\ connections[h[sc].conn] = sc
  /\ SendOk(sc)
  /\ \A t \in Streams \ {sc} : h[t].kind # "client"
  /\ \E m \in messages :
       /\ m.message_data = inputs
       /\ m.message_type = "command"
       /\ m.device_id = d
\* Device stream sd has been sent that command.
CommandReceived(sd) ==
  \E i \in 1 .. Len(ws[sd].sent) :
    ws[sd].sent[i].type = "packet" /\ ws[sd].sent[i].payload = inputs

\* C31: correlation survives the device's disconnect and reconnect.  When a
\* connected client has sent a command for D that could not be sent to D,
\* and D then registers, receives the command and replies, the reply is
\* forwarded over the client's stream and is not stored; and a step that
\* only registers or deregisters D's stream leaves the pending-response
\* entry of D as it is.
C31_CorrelationSurvives ==
  [][/\ \A sd \in Streams, sc \in Streams :
          ( /\ h[sd].kind = "device"
            /\ h[sd].pc = "recv"
            /\ inputs' = inputs + 1
            /\ \A t \in Streams \ {sd} : h'[t] = h[t]
            /\ CommandWaits(sc, h[sd].id)
            /\ CommandReceived(sd) ) =>
            /\ h'[sd].pc = "fwd"
            /\ h'[sd].to = sc
            /\ NewRows = {}
     /\ \A sd \in Streams, sc \in Streams :
          ( /\ h[sd].kind = "device"
            /\ h[sd].pc = "fwd"
            /\ h[sd].to = sc
            /\ h'[sd].pc # "fwd"
            /\ SendOk(sc) ) =>
            /\ ws'[sc].sent = Append(ws[sc].sent, h[sd].msg)
            /\ NewRows = {}
     /\ \A sd \in Streams :
          ( /\ inputs' = inputs
            /\ \/ h[sd].pc = "init" /\ h'[sd].kind = "device"
               \/ /\ h[sd].kind = "device"
                  /\ h[sd].pc \notin {"close", "done"}
                  /\ h'[sd].pc \in {"close", "done"} ) =>
            \A d \in DeviceIds :
              (d = h'[sd].id /\ pending_responses[d] # None) =>
                pending_responses'[d] = pending_responses[d]
    ]_vars

\* C31 witness: the client's command was stored while d1 had no stream, d1
\* then registered and was sent the command, its reply has been forwarded
\* over the client's stream, and no response row was stored.
C31_Witness ==
  \E sd \in Streams, sc \in Streams :
    /\ h[sd].kind = "device"
    /\ h[sc].kind = "client"
    /\ sc < sd
    /\ \E i \in 1 .. Len(ws[sd].sent) :
         ws[sd].sent[i].type = "packet" /\ ws[sd].sent[i].payload = 1
    /\ \E i \in 1 .. Len(ws[sc].sent) :
         ws[sc].sent[i].type = "packet" /\ ws[sc].sent[i].payload = 2
    /\ \E m \in messages : m.message_data = 1 /\ m.message_type = "command"
    /\ \A m \in messages : m.message_type # "response"

\* C32: a client stream becomes active only if, before the authentication
\* deadline, it sent an in-band auth message carrying a valid token or a
\* data frame accompanied by a valid header bearer token; a client stream
\* that sent no frame before the deadline, or whose first frame could not be
\* parsed, is not authenticated and is closed with code 1008.
ClientOpens(s) == h[s].pc = "init" /\ h'[s].kind = "client"
ActiveAfterOpen(s) == h'[s].pc # "done" /\ connections'[ClientConn(h'[s].id)] = s
NoUsableFirstFrame(s) ==
  ~h'[s].auth_received /\ h'[s].first_message.shape = None
C32_Original ==
  [][\A s \in Streams :
       ClientOpens(s) =>
         /\ ActiveAfterOpen(s) =>
              \/ /\ h'[s].auth_received
                 /\ validate_api_token(h'[s].json_token) # None
              \/ /\ h'[s].first_message.shape # None
                 /\ validate_api_token(h'[s].header) # None
         /\ NoUsableFirstFrame(s) =>
              /\ ws'[s].state = "closed"
              /\ ws'[s].code = 1008
              /\ connections'[ClientConn(h'[s].id)] # s]_vars

\* C32 (amended): a client stream becomes active only if the token the
\* handshake settles on is valid, that token being the one of the in-band
\* auth message when it carries one and the header bearer token otherwise
\* (also when no frame arrived before the deadline or the first frame could
\* not be parsed); a client stream that does not become active is closed
\* with code 1008 and is not registered.
C32_TokenDecides ==
  [][\A s \in Streams :
       ClientOpens(s) =>
         LET token == IF h'[s].auth_received /\ h'[s].json_token # None
                      THEN h'[s].json_token ELSE h'[s].header
         IN  IF ActiveAfterOpen(s)
             THEN token \in Users /\ h'[s].user = token
             ELSE /\ ws'[s].state = "closed"
                  /\ ws'[s].code = 1008
                  /\ connections'[ClientConn(h'[s].id)] # s]_vars
C32_Witness ==
  \E s \in Streams :
    /\ h[s].kind = "client" /\ h[s].pc = "welcome"
    /\ connections[h[s].conn] = s
    /\ ~h[s].auth_received /\ h[s].first_message.shape = None
    /\ h[s].header \in Users

\* ------------------------------------------------- two worker processes
\* gunicorn forks several workers, each with its own relay object: the
\* registry, the queues and the correlation table above are those of the
\* worker that is modelled in full (worker A); the database is shared.  A
\* device stream accepted by another worker (worker B) authenticates against
\* the shared store and registers in B's registry: its handler stands at
\* "remote", and A's registry is left alone.  ws[s].sent of such a stream
\* records what worker A sends over it.
RemoteDeviceOpen(s, token, dev) ==
  /\ h[s].pc = "init"
  /\ LET user == validate_api_token(token)
     IN  IF token = None THEN AuthFail(s, "device", dev, token, "AUTH_REQUIRED")
         ELSE IF user = None
              THEN AuthFail(s, "device", dev, token, "INVALID_API_TOKEN")
         ELSE IF devices[dev].user_id # user
              THEN AuthFail(s, "device", dev, token, "DEVICE_NOT_FOUND")
         ELSE /\ devices' = [devices EXCEPT ![dev].last_seen = now]
              /\ ws' = [ws EXCEPT ![s].state = "open"]
              /\ h' = [h EXCEPT ![s] = [NoHandler EXCEPT !.kind = "device",
                                          !.id = dev, !.header = token,
                                          !.user = user, !.pc = "remote"]]
              /\ UNCHANGED <<lock, connections>>
  /\ UNCHANGED <<now, tz, messages, next_id, queues, lists, pending_responses,
                 http, inputs, swept, cascaded>>

\* Worker B's handler leaves through its finally block: B deregisters the
\* stream and closes it.
RemoteDeviceClose(s) ==
  /\ h[s].pc = "remote"
  /\ ws' = [ws EXCEPT ![s] = IF @.state = "open"
                             THEN [@ EXCEPT !.state = "closed", !.code = 1000]
                             ELSE @]
  /\ h' = [h EXCEPT ![s].pc = "done"]
  /\ UNCHANGED <<now, tz, lock, devices, messages, next_id, connections, queues,
                 lists, pending_responses, http, inputs, swept, cascaded>>

\* Worker A next to worker B: device d1 connects to either worker, a client
\* of its owner connects to A and sends commands, the owner pushes commands
\* over HTTP to A, and pulls them from the shared store (the pull handler
\* touches nothing but the store, whichever worker serves it).
NextWorkers ==
  \/ \E s \in Streams :
       \/ \E token \in {"u1", "u2"} :
            InOrder(s) /\ RemoteDeviceOpen(s, token, "d1")
       \/ RemoteDeviceClose(s)
       \/ InOrder(s) /\ DeviceOpen(s, "u1", "d1")
       \/ InOrder(s) /\ ClientOpen(s, "c1", None, AuthMessage("u1"))
       \/ \E frame \in ValidFrames(inputs + 1, {"d1"}, {Absent}) :
            inputs < MaxFrames /\ DeviceFrame(s, frame)
       \/ \E frame \in ValidFrames(inputs + 1, {"d1"}, {Absent}) :
            inputs < MaxFrames /\ ClientFrame(s, frame)
       \/ StreamStep(s)
  \/ inputs < MaxFrames /\ PushStart(1, "u1", "d1", "to_device", "1.0")
  \/ PushSent(1)
  \/ PullStart(2, "u1", "d1", "to_device", 0)
  \/ \E r \in Requests : Respond(r)
SpecWorkers == Init /\ [][NextWorkers]_vars

\* C33: with two workers that share only the durable store, a command that
\* worker A accepts for a device whose stream is registered on worker B is
\* never sent over that stream by A, and it is in the durable store as a
\* to_device row, so that a pull of (device, to_device), served by any
\* worker, returns it.
RemoteOnly(dev) ==
  /\ connections[dev] = NoStream
  /\ \E s \in Streams : h[s].pc = "remote" /\ h[s].id = dev
C33_SharedStore ==
  [][/\ \A s \in Streams : h[s].pc = "remote" => ws'[s].sent = ws[s].sent
     /\ \A sc \in Streams, d \in DeviceIds :
          ( /\ h[sc].kind = "client" /\ h[sc].pc = "recv"
            /\ h'[sc].pc \in {"push", "ack"}
            /\ h'[sc].msg.device_id = d
            /\ RemoteOnly(d) )
          => /\ h'[sc].pc = "ack" /\ ~h'[sc].delivered
             /\ \E m \in NewRows : CommandRow(m, d, h'[sc].msg.payload)
     /\ \A r \in Requests, d \in DeviceIds :
          ( /\ http[r].pc = "idle" /\ http'[r].kind = "push"
            /\ http'[r].user # None /\ http'[r].device_id = d
            /\ http'[r].direction = "to_device"
            /\ RemoteOnly(d) )
          => /\ http'[r].pc = "done" /\ ~http'[r].resp.delivered_via_ws
             /\ \E m \in NewRows : CommandRow(m, d, http'[r].data.payload)
     /\ \A r \in Requests, d \in DeviceIds :
          ( /\ http[r].pc = "idle" /\ http'[r].kind = "pull"
            /\ http'[r].user # None /\ http'[r].device_id = d
            /\ http'[r].direction = "to_device"
            /\ \E s \in Streams : h[s].pc = "remote" /\ h[s].id = d )
          => \A m \in messages :
               (m.device_id = d /\ m.direction = "to_device")
               => /\ http'[r].pc = "done"
                  /\ \E i \in DOMAIN http'[r].resp.messages :
                       http'[r].resp.messages[i] = m]_vars
C33_Witness ==
  \E r \in Requests, s \in Streams :
    /\ h[s].pc = "remote" /\ h[s].id = "d1" /\ connections["d1"] = NoStream
    /\ ws[s].state = "open" /\ ws[s].sent = <<>>
    /\ http[r].kind = "pull" /\ http[r].pc = "done"
    /\ Len(http[r].resp.messages) = 2
    /\ \E i, j \in DOMAIN http[r].resp.messages :
         /\ http[r].resp.messages[i].message_type = "command"
         /\ http[r].resp.messages[j].message_type = "command"
         /\ i # j

\* Registration against delivery: streams of device d1 register one after
\* the other and drop, while the owner pushes commands to d1 over HTTP.
NextDrain ==
  \/ \E s \in Streams :
       \/ InOrder(s) /\ DeviceOpen(s, "u1", "d1")
       \/ Drain(s)
       \/ SendWelcome(s)
       \/ ReceiveFailed(s)
       \/ DisconnectClose(s)
       \/ PeerDrop(s)
  \/ \E r \in Requests :
       \/ InOrderRequest(r) /\ PushStart(r, "u1", "d1", "to_device", "1.0")
       \/ PushSent(r)
SpecDrain == Init /\ [][NextDrain]_vars

\* C34: no queued envelope is lost when register and deliver interleave: an
\* envelope that a deliver appended to the target's queue during the drain
\* of a register (after the snapshot, before the clear) is either sent by
\* that drain or still in the queue when the register completes.
DrainEnds(s) == h[s].pc = "drain" /\ h'[s].pc # "drain"
StillQueued(cid, e) ==
  /\ queues'[cid] # NoList
  /\ \E k \in DOMAIN lists'[queues'[cid]] : lists'[queues'[cid]][k] = e
C34_Original ==
  [][\A s \in Streams :
       DrainEnds(s) =>
         \A i \in (h[s].n_queued + 1) .. Len(lists[h[s].queued]) :
           \/ \E k \in DOMAIN ws'[s].sent :
                ws'[s].sent[k] = lists[h[s].queued][i]
           \/ StillQueued(h[s].conn, lists[h[s].queued][i])]_vars

\* C35: when streams S1 and then S2 registered under the same connection
\* id, the end of S1's handler (its deregister) neither removes S2 from the
\* registry nor closes S2: while S2's handler has not ended, the registry
\* maps the id to S2.
HandlerRuns(s) == h[s].conn # None /\ h[s].pc \notin {"init", "close", "done"}
Superseded(s1, s2) == s1 < s2 /\ h[s1].conn = h[s2].conn /\ HandlerRuns(s2)
C35_Original ==
  [][\A s1, s2 \in Streams :
       Superseded(s1, s2) =>
         /\ HandlerRuns(s2)' => connections'[h[s2].conn] = s2
         /\ (h[s1].pc = "close" /\ h'[s1].pc = "done")
              => ws'[s2].state = ws[s2].state]_vars

\* C36: in every reachable state, each pending-response entry device ->
\* client names a client connection id that is present in the registry,
\* whatever the interleaving of client connects, disconnects and commands,
\* two client streams under one client id included.
C36_Original ==
  \A d \in DeviceIds :
    pending_responses[d] # None => connections[pending_responses[d]] # NoStream

\* C37: an envelope with direction to_client is never sent over a device
\* stream and never appended to the in-memory queue that is drained to a
\* device stream; an HTTP push with direction to_client is only persisted
\* for pull and not delivered to the device.
PushAccepted(r, dir) ==
  /\ http[r].pc = "idle"
  /\ http'[r].kind = "push" /\ http'[r].user # None
  /\ http'[r].direction = dir
C37_Original ==
  [][\A r \in Requests :
       /\ PushAccepted(r, "to_client") =>
            /\ http'[r].pc = "done"
            /\ ~http'[r].resp.delivered_via_ws
            /\ lists' = lists /\ queues' = queues
            /\ \E m \in NewRows : m.direction = "to_client"
       /\ (http[r].pc = "send" /\ http[r].direction = "to_client") =>
            ws' = ws /\ lists' = lists /\ queues' = queues]_vars

\* C38: a response sent by device D is forwarded over a client stream only
\* if that stream was authenticated as the user who owns D: a stream
\* authenticated as another user never receives D's response, whether that
\* user sent a command naming D or registered under the client id of the
\* owner's client.
C38_Original ==
  [][\A sd, sc \in Streams :
       ( /\ h[sd].kind = "device" /\ h[sd].pc = "fwd" /\ h[sd].to = sc
         /\ h'[sd].pc # "fwd"
         /\ ws'[sc].sent = Append(ws[sc].sent, h[sd].msg) )
       => h[sc].user = h[sd].user]_vars

\* C39: once the durable row of a command has been removed, by the sweeper
\* or by the deletion of its device, that command is never afterwards sent
\* to a device over a stream: no copy of it survives in the in-memory queue.
RowRemoved(p) == p \in swept \cup cascaded
C39_Original ==
  [][\A s \in Streams :
       (h[s].kind = "device" /\ Len(ws'[s].sent) = Len(ws[s].sent) + 1)
       => ~RowRemoved(ws'[s].sent[Len(ws'[s].sent)].payload)]_vars

\* C40: within one worker no durable envelope is returned by two pulls:
\* under any interleaving of pulls (long polls included) on one
\* (device_id, direction), every row a pull returns was in the store at its
\* read, is deleted by it in the same step, is in no response of another
\* pull, and the id of a row is never issued again.
PullAnswers(r) ==
  /\ http[r].pc \in {"idle", "sleep"}
  /\ http'[r].kind = "pull" /\ http'[r].pc = "done"
Returned(hr) == {hr.resp.messages[i] : i \in DOMAIN hr.resp.messages}
C40_PullOnce ==
  [][/\ \A r \in Requests :
          PullAnswers(r) =>
            \A m \in Returned(http'[r]) :
              /\ m \in messages
              /\ m \notin messages'
              /\ \A r2 \in Requests \ {r} :
                   http[r2].kind = "pull" => m \notin Returned(http[r2])
     /\ \A m \in NewRows : m.id = next_id /\ next_id' = next_id + 1]_vars
C40_Witness ==
  \E m \in Returned(http[2]) :
    /\ http[1].kind = "pull" /\ http[1].pc = "sleep"
    /\ http[2].kind = "pull" /\ http[2].pc = "done"
    /\ http[2].device_id = http[1].device_id
    /\ http[2].direction = http[1].direction
    /\ http[1].start < m.timestamp
====
